---- MODULE Spec2Model ----
(***************************************************************************)
(* A model of trigger_batch.py: the six category triggers, the final       *)
(* free/premium allocation (select_final_tickers) and the batch driver     *)
(* (run_batch).                                                            *)
(*                                                                         *)
(* Data frames are sequences of row records (a row's `ticker` is its index *)
(* label).  Floating point metrics are modelled by exact rationals <<n,d>> *)
(* (d > 0, reduced); NaN is the pair <<0,0>>.  Money is counted in units   *)
(* of 100,000,000 won.                                                     *)
(***************************************************************************)
EXTENDS Integers, Sequences, FiniteSets, TLC

VARIABLES
    pc,             \* position of the run / of the function under check
    trigger_time,   \* run_batch argument: the mode
    output_file,    \* run_batch argument: TRUE when an output path was given
    env,            \* what the data provider answers during this run
    trade_date,     \* run_batch local
    attempts,       \* the dates get_snapshot was called with, in order
    snapshot,       \* today's table
    prev_snapshot,  \* the prior business day's table
    cap_df,         \* the market-cap table: [has_cap_col, rows]
    triggers,       \* the ordered dict name -> result frame
    final_results,  \* the value select_final_tickers returned
    output_data,    \* the JSON document written, or NoDoc
    stages,         \* the locals of the trigger under check, or NoStages
    outcome,        \* how the call ended
    conversations,  \* the bot: user -> state of each ConversationHandler
    user_data,      \* the bot: user -> context.user_data
    pending_requests, \* the bot: self.pending_requests
    analysis_queue, \* the bot: the queue of analysis requests
    handled         \* the bot: the handler that took the last update

batchVars == <<pc, trigger_time, output_file, env, trade_date, attempts,
               snapshot, prev_snapshot, cap_df, triggers, final_results,
               output_data, stages, outcome>>

botVars == <<conversations, user_data, pending_requests, analysis_queue,
             handled>>

vars == <<batchVars, botVars>>

\* the bot is not part of a batch run
NoBot ==
    /\ conversations = <<>>
    /\ user_data = <<>>
    /\ pending_requests = {}
    /\ analysis_queue = <<>>
    /\ handled = <<>>

----------------------------------------------------------------------------
(* Bounds of the model *)

NumTickers == 4
ScoreSteps == 2
MaxPoolRows == 5
MaxRows == 4
NumDays == 2
MaxBatchRows == 2

(* Program constants *)

MaxPremium == 3
ResultRows == 3

Tickers == 1..NumTickers

----------------------------------------------------------------------------
(* Exact rational arithmetic standing for float64 columns *)

NaN == <<0, 0>>
IsNaN(a) == a[2] = 0

Abs(i) == IF i < 0 THEN -i ELSE i

RECURSIVE Gcd(_, _)
Gcd(a, b) == IF b = 0 THEN a ELSE Gcd(b, a % b)

Rat(n, d) ==
    IF d = 0 THEN NaN
    ELSE LET g == Gcd(Abs(n), Abs(d))
             s == IF d < 0 THEN -1 ELSE 1
         IN  <<(s * n) \div g, (s * d) \div g>>

RSub(a, b) == IF IsNaN(a) \/ IsNaN(b) THEN NaN
              ELSE Rat(a[1] * b[2] - b[1] * a[2], a[2] * b[2])
RAdd(a, b) == IF IsNaN(a) \/ IsNaN(b) THEN NaN
              ELSE Rat(a[1] * b[2] + b[1] * a[2], a[2] * b[2])
RMul(a, b) == IF IsNaN(a) \/ IsNaN(b) THEN NaN
              ELSE Rat(a[1] * b[1], a[2] * b[2])
RDiv(a, b) == IF IsNaN(a) \/ IsNaN(b) THEN NaN
              ELSE Rat(a[1] * b[2], a[2] * b[1])
\* comparisons: any comparison with NaN is false
RGt(a, b) == ~IsNaN(a) /\ ~IsNaN(b) /\ a[1] * b[2] > b[1] * a[2]
RGe(a, b) == ~IsNaN(a) /\ ~IsNaN(b) /\ a[1] * b[2] >= b[1] * a[2]
RInt(i) == <<i, 1>>

----------------------------------------------------------------------------
(* The modes and the category names, in the order run_batch declares them  *)
(* (lines 641, 648)                                                        *)

MorningNames == <<"volume_surge", "gap_up", "value_to_cap">>
AfternoonNames == <<"daily_rise", "closing_strength", "volume_surge_flat">>
Modes == {"morning", "afternoon"}
NamesOf(mode) == IF mode = "morning" THEN MorningNames ELSE AfternoonNames

----------------------------------------------------------------------------
(* Frames *)

EmptyFrame == [cols |-> {}, rows |-> <<>>]
IsEmpty(df) == df.rows = <<>>

Index(df) == [i \in 1..Len(df.rows) |-> df.rows[i].ticker]
IndexSet(df) == {df.rows[i].ticker : i \in 1..Len(df.rows)}

\* df.loc[[ticker]]: the rows labelled ticker, in frame order
RECURSIVE SelectRows(_, _)
SelectRows(rows, t) ==
    IF rows = <<>> THEN <<>>
    ELSE (IF Head(rows).ticker = t THEN <<Head(rows)>> ELSE <<>>)
         \o SelectRows(Tail(rows), t)

Loc(df, t) == SelectRows(df.rows, t)

RECURSIVE SeqToSet(_)
SeqToSet(s) == IF s = <<>> THEN {} ELSE {Head(s)} \cup SeqToSet(Tail(s))

----------------------------------------------------------------------------
(* select_final_tickers *)

\* lines 554-565: one pool entry for the first occurrence of each ticker
RECURSIVE CollectRows(_, _, _, _)
CollectRows(name, rows, seen, pool) ==
    IF rows = <<>> THEN [seen |-> seen, pool |-> pool]
    ELSE LET r == Head(rows) IN
         IF r.ticker \notin seen
         THEN CollectRows(name, Tail(rows), seen \cup {r.ticker},
                          Append(pool, [name |-> name, ticker |-> r.ticker,
                                        score |-> r.score]))
         ELSE CollectRows(name, Tail(rows), seen, pool)

RECURSIVE CollectPool(_, _, _)
CollectPool(trigs, seen, pool) ==
    IF trigs = <<>> THEN pool
    ELSE LET c == CollectRows(Head(trigs).name, Head(trigs).df.rows, seen, pool)
         IN  CollectPool(Tail(trigs), c.seen, c.pool)

\* mutant: an entry goes before the entries of equal score
RECURSIVE InsertByScore_TiesFirst(_, _)
InsertByScore_TiesFirst(sorted, e) ==
    IF sorted = <<>> THEN <<e>>
    ELSE IF RGe(e.score, Head(sorted).score)
         THEN <<e>> \o sorted
         ELSE <<Head(sorted)>> \o InsertByScore_TiesFirst(Tail(sorted), e)

\* line 568: list.sort(key=score, reverse=True), a stable sort
RECURSIVE InsertByScore(_, _)
InsertByScore(sorted, e) ==
    IF sorted = <<>> THEN <<e>>
    ELSE IF RGt(e.score, Head(sorted).score)
         THEN <<e>> \o sorted
         ELSE <<Head(sorted)>> \o InsertByScore(Tail(sorted), e)

\* mutant: the pool is left in insertion order
SortPool_Unsorted(pool) == pool

RECURSIVE SortPool(_)
SortPool(pool) ==
    IF pool = <<>> THEN <<>>
    ELSE InsertByScore(SortPool(SubSeq(pool, 1, Len(pool) - 1)), pool[Len(pool)])

\* triggers[name]
RECURSIVE Lookup(_, _)
Lookup(trigs, name) ==
    IF Head(trigs).name = name THEN Head(trigs).df ELSE Lookup(Tail(trigs), name)

\* mutant: free takes the whole frame of the best category
FreePick_WholeFrame(trigs, sorted) ==
    IF sorted = <<>> THEN <<>>
    ELSE <<[name |-> sorted[1].name,
            rows |-> Lookup(trigs, sorted[1].name).rows]>>

\* lines 570-573
FreePick(trigs, sorted) ==
    IF sorted = <<>> THEN <<>>
    ELSE <<[name |-> sorted[1].name,
            rows |-> Loc(Lookup(trigs, sorted[1].name), sorted[1].ticker)]>>

\* mutant: there is no first pass
FirstPass_None(trigs, acc) == acc

\* mutant: the first pass does not look at the tickers already chosen
RECURSIVE FirstPass_NoDedup(_, _)
FirstPass_NoDedup(trigs, acc) ==
    IF trigs = <<>> THEN acc
    ELSE LET name == Head(trigs).name
             df   == Head(trigs).df
         IN  IF ~IsEmpty(df) /\ Cardinality(acc.tickers) < MaxPremium
             THEN FirstPass_NoDedup(Tail(trigs),
                     [tickers |-> acc.tickers \cup {df.rows[1].ticker},
                      result  |-> Append(acc.result,
                                    [name |-> name,
                                     rows |-> Loc(df, df.rows[1].ticker)])])
             ELSE FirstPass_NoDedup(Tail(trigs), acc)

\* mutant: the first pass takes df.head(1) of every trigger, an empty one too
RECURSIVE FirstPass_KeepsEmpty(_, _)
FirstPass_KeepsEmpty(trigs, acc) ==
    IF trigs = <<>> THEN acc
    ELSE LET name == Head(trigs).name
             df   == Head(trigs).df
             top  == IF IsEmpty(df) THEN <<>> ELSE <<df.rows[1]>>
         IN  IF Cardinality(acc.tickers) < MaxPremium
                 /\ \A i \in 1..Len(top) : top[i].ticker \notin acc.tickers
             THEN FirstPass_KeepsEmpty(Tail(trigs),
                     [tickers |-> acc.tickers \cup {top[i].ticker : i \in 1..Len(top)},
                      result  |-> Append(acc.result, [name |-> name, rows |-> top])])
             ELSE FirstPass_KeepsEmpty(Tail(trigs), acc)

\* lines 579-585: the top row of each non-empty trigger, in dict order
RECURSIVE FirstPass(_, _)
FirstPass(trigs, acc) ==
    IF trigs = <<>> THEN acc
    ELSE LET name == Head(trigs).name
             df   == Head(trigs).df
         IN  IF ~IsEmpty(df) /\ Cardinality(acc.tickers) < MaxPremium
                 /\ df.rows[1].ticker \notin acc.tickers
             THEN FirstPass(Tail(trigs),
                     [tickers |-> acc.tickers \cup {df.rows[1].ticker},
                      result  |-> Append(acc.result,
                                    [name |-> name,
                                     rows |-> Loc(df, df.rows[1].ticker)])])
             ELSE FirstPass(Tail(trigs), acc)

HasKey(result, name) == \E i \in 1..Len(result) : result[i].name = name

\* lines 592-600: concat onto the trigger's entry, or a new entry at the end
AddToResult(result, name, rows) ==
    IF HasKey(result, name)
    THEN [i \in 1..Len(result) |->
            IF result[i].name = name
            THEN [name |-> name, rows |-> result[i].rows \o rows]
            ELSE result[i]]
    ELSE Append(result, [name |-> name, rows |-> rows])

\* lines 589-601
RECURSIVE FillFromPool(_, _, _)
FillFromPool(trigs, sorted, acc) ==
    IF sorted = <<>> THEN acc
    ELSE LET e == Head(sorted) IN
         IF e.ticker \notin acc.tickers /\ Cardinality(acc.tickers) < MaxPremium
         THEN FillFromPool(trigs, Tail(sorted),
                 [tickers |-> acc.tickers \cup {e.ticker},
                  result  |-> AddToResult(acc.result, e.name,
                                          Loc(Lookup(trigs, e.name), e.ticker))])
         ELSE FillFromPool(trigs, Tail(sorted), acc)

\* lines 587-601
SecondPass(trigs, sorted, acc) ==
    IF Cardinality(acc.tickers) < MaxPremium
    THEN FillFromPool(trigs, sorted, acc)
    ELSE acc

\* lines 545-603
select_final_tickers(trigs) ==
    LET sorted == SortPool(CollectPool(trigs, {}, <<>>))
        first  == FirstPass(trigs, [tickers |-> {}, result |-> <<>>])
    IN  [free    |-> FreePick(trigs, sorted),
         premium |-> SecondPass(trigs, sorted, first).result]

----------------------------------------------------------------------------
(* Shared helpers of the triggers *)

\* mutant: head(n) keeps every row
FirstN_All(s, n) == s

\* df.head(n)
FirstN(s, n) == SubSeq(s, 1, IF Len(s) < n THEN Len(s) ELSE n)

\* the row labelled t (labels are unique within a snapshot)
RowOf(df, t) == df.rows[CHOOSE i \in 1..Len(df.rows) : df.rows[i].ticker = t]

\* snapshot.loc[snapshot.index.intersection(prev_snapshot.index)]
CommonRows(snap, prev) == SelectSeq(snap.rows, LAMBDA r : r.ticker \in IndexSet(prev))

RECURSIVE SumVolume(_)
SumVolume(rows) == IF rows = <<>> THEN 0 ELSE Head(rows).volume + SumVolume(Tail(rows))

\* mutant: the volume mean is taken over the rows that passed the value filter
apply_absolute_filters_MeanAfter(rows, min_value) ==
    LET kept == SelectSeq(rows, LAMBDA r : r.value >= min_value)
    IN  SelectSeq(kept, LAMBDA r : 5 * Len(kept) * r.volume >= SumVolume(kept))

\* lines 85-99: value >= min_value, then volume >= 0.2 * mean(volume of df);
\* volume >= 0.2 * sum / n is written 5 * n * volume >= sum
apply_absolute_filters(rows, min_value) ==
    LET kept == SelectSeq(rows, LAMBDA r : r.value >= min_value)
    IN  SelectSeq(kept, LAMBDA r : 5 * Len(rows) * r.volume >= SumVolume(rows))

\* mutant: a base of 0 is replaced by 1 instead of NaN
PctOver_ZeroBaseAsOne(a, b) ==
    RMul(RSub(Rat(a, IF b = 0 THEN 1 ELSE b), RInt(1)), RInt(100))

\* (a / b - 1) * 100
PctOver(a, b) == RMul(RSub(Rat(a, b), RInt(1)), RInt(100))

\* the derived columns of one row s of today's table, given its row p of the
\* prior day and its market cap (0 when the trigger does no cap join)
Metrics(s, p, cap) ==
    [ticker      |-> s.ticker,
     open        |-> s.open,
     high        |-> s.high,
     low         |-> s.low,
     close       |-> s.close,
     volume      |-> s.volume,
     value       |-> s.value,
     cap         |-> cap,
     \* volume / prev volume.replace(0, nan), lines 166-168, 449, 506
     vol_growth  |-> PctOver(s.volume, p.volume),
     \* (volume - prev volume.replace(0, nan)) > 0, line 455
     vol_up      |-> p.volume # 0 /\ s.volume - p.volume > 0,
     \* lines 171, 226, 341, 409, 452, 509
     intraday    |-> PctOver(s.close, s.open),
     \* lines 174, 227, 342, 410, 453, 510
     chg         |-> RMul(Rat(s.close - p.close, p.close), RInt(100)),
     \* line 225
     gap         |-> PctOver(s.open, p.close),
     \* lines 444-446
     strength    |-> IF s.high # s.low
                     THEN Rat(s.close - s.low, s.high - s.low)
                     ELSE RInt(0),
     \* line 338
     value_ratio |-> IF cap = 0 THEN NaN ELSE RMul(Rat(s.value, cap), RInt(100)),
     \* lines 186, 228, 343, 456
     rising      |-> s.close > s.open,
     \* the <col>_norm columns, in the order the trigger computes them
     norms       |-> <<>>,
     score       |-> NaN]

WithMetrics(rows, prev) ==
    [i \in 1..Len(rows) |-> Metrics(rows[i], RowOf(prev, rows[i].ticker), 0)]

\* Series.max() / Series.min(), which skip NaN
ColMax(S, F(_)) ==
    LET V == {F(r) : r \in S} \ {NaN}
    IN  IF V = {} THEN NaN ELSE CHOOSE v \in V : \A w \in V : RGe(v, w)
ColMin(S, F(_)) ==
    LET V == {F(r) : r \in S} \ {NaN}
    IN  IF V = {} THEN NaN ELSE CHOOSE v \in V : \A w \in V : RGe(w, v)

\* mutant: the column is shifted by its minimum and not divided by its range
ColRange_One(mx, mn) == RInt(1)

\* mutant: the divisor is the maximum instead of the range
ColRange_Max(mx, mn) == IF RGt(mx, mn) THEN mx ELSE RInt(1)

\* mutant: no fallback divisor for a column of equal values
ColRange_NoFallback(mx, mn) == RSub(mx, mn)

\* lines 123-124, 239, 359, 467: max - min if max > min else 1
ColRange(mx, mn) == IF RGt(mx, mn) THEN RSub(mx, mn) ELSE RInt(1)

\* lines 127-128, 240, 360, 468
Norm(S, F(_), r) ==
    LET mn == ColMin(S, F) IN RDiv(RSub(F(r), mn), ColRange(ColMax(S, F), mn))

SetScore(r, sc) == [r EXCEPT !.score = sc]

\* lines 116-131: the two normalized columns and the composite score
normalize_and_score(S, A(_), B(_), wa, wb) ==
    {LET na == Norm(S, A, r)
         nb == Norm(S, B, r)
     IN  [SetScore(r, RAdd(RMul(na, wa), RMul(nb, wb))) EXCEPT !.norms = <<na, nb>>] :
       r \in S}

\* lines 236-247, 356-367, 464-475: the same with three columns
Score3(S, A(_), B(_), C(_), wa, wb, wc) ==
    {LET na == Norm(S, A, r)
         nb == Norm(S, B, r)
         nc == Norm(S, C, r)
     IN  [SetScore(r, RAdd(RAdd(RMul(na, wa), RMul(nb, wb)), RMul(nc, wc)))
            EXCEPT !.norms = <<na, nb, nc>>] :
       r \in S}

\* sort_values("score", ascending=False): pandas sorts with an unstable
\* quicksort by default, so rows of equal score may come out in any order.
\* The set of every descending arrangement of the rows S.
RECURSIVE SortedSeqs(_)
SortedSeqs(S) ==
    IF S = {} THEN {<<>>}
    ELSE LET num  == {r \in S : ~IsNaN(r.score)}
             \* rows with a NaN score go last (na_position="last")
             tops == IF num = {} THEN S
                     ELSE {r \in num : \A q \in num : RGe(r.score, q.score)}
         IN  UNION {{<<r>> \o s : s \in SortedSeqs(S \ {r})} : r \in tops}

\* mutant: no cut to the top n rows before the qualifier
TopCandidates_NoCut(S, n) == SortedSeqs(S)

\* sort_values(...).head(n)
TopCandidates(S, n) == {FirstN(s, n) : s \in SortedSeqs(S)}

\* candidates[qualifier].sort_values("score", ascending=False).head(3)
FinalRows(cand, Q(_)) ==
    LET result == SelectSeq(cand, Q)
    IN  IF result = <<>> THEN {<<>>}
        ELSE {FirstN(s, ResultRows) : s \in SortedSeqs(SeqToSet(result))}

\* mutant: a trigger call drops the first row of the caller's frame
SharedAfter_RowDropped(df) ==
    [df EXCEPT !.rows = IF df.rows = <<>> THEN <<>> ELSE Tail(df.rows)]

\* The caller's frame after a trigger call.  Every trigger takes its working
\* tables as copies (snapshot.loc[common].copy(), lines 155-156, 218-219,
\* 402-403, 437-438, 499-500; snapshot.merge(...).copy(), lines 299-317) and
\* adds its columns to, and filters, the copies only.
SharedAfter(df) == df

Returned(df) == [df |-> df, raised |-> FALSE]
Raised == [df |-> EmptyFrame, raised |-> TRUE]

\* lines 136-142: one display-name lookup per row; a lookup that raises ends
\* the call.  fail is the set of tickers whose lookup raises.
enhance_dataframe(rows, cols, fail) ==
    IF rows = <<>> THEN Returned(EmptyFrame)
    ELSE IF \E i \in 1..Len(rows) : rows[i].ticker \in fail THEN Raised
    ELSE Returned([cols |-> cols \cup {"name"}, rows |-> rows])

BaseCols == {"open", "high", "low", "close", "volume", "value"}

----------------------------------------------------------------------------
(* The six category triggers.  Each yields the set of its possible         *)
(* outcomes [df, raised] (several when rows tie on the score).             *)

\* thresholds, in units of 100,000,000 won
MinValueDefault == 5
MinValueDailyRise == 10
MinMarketCap == 100

TopNVolumeSurge == 10
TopNGapUp == 15
TopNValueToCap == 10
TopNDailyRise == 15
TopNClosingStrength == 15
TopNVolumeSurgeFlat == 20

VolGrowth(r) == r.vol_growth
Volume(r) == RInt(r.volume)
Value(r) == RInt(r.value)
Intraday(r) == r.intraday
Gap(r) == r.gap
ValueRatio(r) == r.value_ratio
Strength(r) == r.strength
Rising(r) == r.rising
\* line 513: intraday.abs() <= 5
Flat(r) == RGe(RInt(5), r.intraday) /\ RGe(r.intraday, RInt(-5))

VolumeSurgeCols ==
    BaseCols \cup {"vol_ratio", "vol_growth", "intraday", "chg", "rising", "score"}
GapUpCols ==
    BaseCols \cup {"gap", "intraday", "chg", "rising", "score", "momentum"}
ValueToCapCols ==
    BaseCols \cup {"cap", "value_ratio", "intraday", "chg", "rising", "score"}
DailyRiseCols == BaseCols \cup {"intraday", "chg", "score"}
ClosingStrengthCols ==
    BaseCols \cup {"strength", "vol_growth", "intraday", "chg", "vol_up", "rising",
                   "score"}
VolumeSurgeFlatCols == BaseCols \cup {"vol_growth", "intraday", "chg", "flat", "score"}

\* The pre-score filters.
\* mutant: the surge threshold excludes a growth of exactly 30
VolumeSurgePre_Strict(rows) == SelectSeq(rows, LAMBDA r : RGt(r.vol_growth, RInt(30)))

\* line 189
VolumeSurgePre(rows) == SelectSeq(rows, LAMBDA r : RGe(r.vol_growth, RInt(30)))
\* mutant: the gap threshold excludes a gap of exactly 1
GapUpPre_Strict(rows) == SelectSeq(rows, LAMBDA r : RGt(r.gap, RInt(1)))

\* line 231
GapUpPre(rows) == SelectSeq(rows, LAMBDA r : RGe(r.gap, RInt(1)))
\* line 346
ValueToCapPre(rows) == SelectSeq(rows, LAMBDA r : r.cap >= MinMarketCap)
\* mutant: no threshold on the intraday change
DailyRisePre_None(rows) == rows

\* line 413
DailyRisePre(rows) == SelectSeq(rows, LAMBDA r : RGe(r.intraday, RInt(3)))
\* line 459
ClosingStrengthPre(rows) == SelectSeq(rows, LAMBDA r : r.vol_up)
\* line 516
VolumeSurgeFlatPre(rows) == SelectSeq(rows, LAMBDA r : RGe(r.vol_growth, RInt(50)))

\* The locals of a trigger up to its scoring: the frame it hands to
\* apply_absolute_filters with the threshold, the frame that comes back, the
\* rows left by the pre-score filter, and those rows scored.
StageRecord(input, min_value, kept, pre, scored) ==
    [input |-> input, min_value |-> min_value, kept |-> kept, pre |-> pre,
     scored |-> scored]

NoStages == [none |-> TRUE]

\* lines 154-196
VolumeSurgeStages(snap, prev) ==
    LET input == CommonRows(snap, prev)
        kept  == apply_absolute_filters(input, MinValueDefault)
        pre   == SeqToSet(VolumeSurgePre(WithMetrics(kept, prev)))
    IN  StageRecord(input, MinValueDefault, kept, pre,
           IF pre = {} THEN {}
           ELSE normalize_and_score(pre, VolGrowth, Volume, Rat(6, 10), Rat(4, 10)))

\* lines 145-207
trigger_morning_volume_surge(snap, prev, fail) ==
    LET scored == VolumeSurgeStages(snap, prev).scored
    IN  IF scored = {} THEN {Returned(EmptyFrame)}
        ELSE {enhance_dataframe(res, VolumeSurgeCols, fail) :
                res \in UNION {FinalRows(cand, Rising) :
                                 cand \in TopCandidates(scored, TopNVolumeSurge)}}

\* lines 217-247
GapUpStages(snap, prev) ==
    LET input == CommonRows(snap, prev)
        kept  == apply_absolute_filters(input, MinValueDefault)
        pre   == SeqToSet(GapUpPre(WithMetrics(kept, prev)))
    IN  StageRecord(input, MinValueDefault, kept, pre,
           IF pre = {} THEN {}
           ELSE Score3(pre, Gap, Intraday, Value, Rat(5, 10), Rat(3, 10), Rat(2, 10)))

\* lines 209-265
trigger_morning_gap_up_momentum(snap, prev, fail) ==
    LET scored == GapUpStages(snap, prev).scored
        cands == IF scored # {} THEN TopCandidates(scored, TopNGapUp) ELSE {<<>>}
    IN  {enhance_dataframe(res, GapUpCols, fail) :
            res \in UNION {FinalRows(cand, Rising) : cand \in cands}}

CapOf(cap, t) == cap.rows[CHOOSE i \in 1..Len(cap.rows) : cap.rows[i].ticker = t].cap

\* lines 277-293: the guards that return an empty frame at once
ValueToCapGuard(snap, prev, cap) ==
    IsEmpty(snap) \/ IsEmpty(prev) \/ IsEmpty(cap) \/ "cap" \notin cap.cols

\* lines 299-367
ValueToCapStages(snap, prev, cap) ==
    IF ValueToCapGuard(snap, prev, cap)
    THEN StageRecord(<<>>, MinValueDefault, <<>>, {}, {})
    ELSE
    LET merged == SelectSeq(snap.rows, LAMBDA r : r.ticker \in IndexSet(cap))
        input  == SelectSeq(merged, LAMBDA r : r.ticker \in IndexSet(prev))
        kept   == apply_absolute_filters(input, MinValueDefault)
        rows   == [i \in 1..Len(kept) |->
                     Metrics(kept[i], RowOf(prev, kept[i].ticker),
                             CapOf(cap, kept[i].ticker))]
        pre    == SeqToSet(ValueToCapPre(rows))
    IN  StageRecord(input, MinValueDefault, kept, pre,
           IF pre = {} THEN {}
           ELSE Score3(pre, ValueRatio, Value, Intraday,
                       Rat(5, 10), Rat(3, 10), Rat(2, 10)))

\* lines 267-388; an error raised inside the try block (the name lookup is
\* the one modelled) is caught and an empty frame returned
trigger_morning_value_to_cap_ratio(snap, prev, cap, fail) ==
    LET scored == ValueToCapStages(snap, prev, cap).scored
    IN  IF scored = {} THEN {Returned(EmptyFrame)}
        ELSE LET outs == {enhance_dataframe(res, ValueToCapCols, fail) :
                            res \in UNION {FinalRows(cand, Rising) :
                                     cand \in TopCandidates(scored, TopNValueToCap)}}
             IN  {IF o.raised THEN Returned(EmptyFrame) ELSE o : o \in outs}

\* lines 400-420
DailyRiseStages(snap, prev) ==
    LET input == CommonRows(snap, prev)
        kept  == apply_absolute_filters(input, MinValueDailyRise)
        pre   == SeqToSet(DailyRisePre(WithMetrics(kept, prev)))
    IN  StageRecord(input, MinValueDailyRise, kept, pre,
           IF pre = {} THEN {}
           ELSE normalize_and_score(pre, Intraday, Value, Rat(6, 10), Rat(4, 10)))

\* lines 391-426
trigger_afternoon_daily_rise_top(snap, prev, fail) ==
    LET scored == DailyRiseStages(snap, prev).scored
    IN  IF scored = {} THEN {Returned(EmptyFrame)}
        ELSE {enhance_dataframe(FirstN(cand, ResultRows), DailyRiseCols, fail) :
                cand \in TopCandidates(scored, TopNDailyRise)}

\* lines 436-475
ClosingStrengthStages(snap, prev) ==
    LET input == CommonRows(snap, prev)
        kept  == apply_absolute_filters(input, MinValueDefault)
        pre   == SeqToSet(ClosingStrengthPre(WithMetrics(kept, prev)))
    IN  StageRecord(input, MinValueDefault, kept, pre,
           IF pre = {} THEN {}
           ELSE Score3(pre, Strength, VolGrowth, Value,
                       Rat(5, 10), Rat(3, 10), Rat(2, 10)))

\* lines 428-488
trigger_afternoon_closing_strength(snap, prev, fail) ==
    LET scored == ClosingStrengthStages(snap, prev).scored
        cands == IF scored # {} THEN TopCandidates(scored, TopNClosingStrength)
                 ELSE {<<>>}
    IN  {enhance_dataframe(res, ClosingStrengthCols, fail) :
            res \in UNION {FinalRows(cand, Rising) : cand \in cands}}

\* lines 498-523
VolumeSurgeFlatStages(snap, prev) ==
    LET input == CommonRows(snap, prev)
        kept  == apply_absolute_filters(input, MinValueDefault)
        pre   == SeqToSet(VolumeSurgeFlatPre(WithMetrics(kept, prev)))
    IN  StageRecord(input, MinValueDefault, kept, pre,
           IF pre = {} THEN {}
           ELSE normalize_and_score(pre, VolGrowth, Value, Rat(6, 10), Rat(4, 10)))

\* lines 490-542
trigger_afternoon_volume_surge_flat(snap, prev, fail) ==
    LET scored == VolumeSurgeFlatStages(snap, prev).scored
    IN  IF scored = {} THEN {Returned(EmptyFrame)}
        ELSE {enhance_dataframe(res, VolumeSurgeFlatCols, fail) :
                res \in UNION {FinalRows(cand, Flat) :
                              cand \in TopCandidates(scored, TopNVolumeSurgeFlat)}}

TriggerNames == SeqToSet(MorningNames) \cup SeqToSet(AfternoonNames)

----------------------------------------------------------------------------
(* Values of the variables a specification does not use *)

NoDoc == [written |-> FALSE]
NoEnv == [none |-> TRUE]
NoResults == [returned |-> FALSE]


----------------------------------------------------------------------------
(* SpecAlloc: select_final_tickers applied to every bounded set of trigger  *)
(* results.  A result frame is what a trigger can return: at most          *)
(* ResultRows rows, distinct tickers, scores in [0,1] in descending order. *)

Scores == {Rat(i, ScoreSteps) : i \in 0..ScoreSteps}

ScoredRows == [ticker : Tickers, score : Scores]

ScoredCols == {"score"}

MaxOf(S) == CHOOSE x \in S : \A y \in S : y <= x

\* the largest ticker label among the rows s and m
TopLabel(s, m) == MaxOf({m} \cup {s[i].ticker : i \in 1..Len(s)})

\* select_final_tickers only tests ticker labels for equality, so every input
\* is a renaming of one whose labels first occur in the order 1, 2, 3, ...
\* FramesFrom[n][m]: the result frames of n rows that continue such a
\* labelling when the labels 1..m are already in use.
FramesFrom ==
    [n \in 0..ResultRows |-> [m \in 0..NumTickers |->
        {s \in [1..n -> ScoredRows] :
            /\ \A i, j \in 1..n : i < j =>
                  /\ s[i].ticker # s[j].ticker
                  /\ RGe(s[i].score, s[j].score)
            /\ \A i \in 1..n :
                  s[i].ticker <= 1 + TopLabel(SubSeq(s, 1, i - 1), m)}]]

Frame(f) == IF f = <<>> THEN EmptyFrame ELSE [cols |-> ScoredCols, rows |-> f]

AllocInit ==
    /\ pc = "alloc_call"
    /\ trigger_time \in Modes
    /\ \E l1, l2, l3 \in 0..ResultRows :
         /\ l1 + l2 + l3 <= MaxPoolRows
         /\ \E f1 \in FramesFrom[l1][0] :
            \E f2 \in FramesFrom[l2][TopLabel(f1, 0)] :
            \E f3 \in FramesFrom[l3][TopLabel(f2, TopLabel(f1, 0))] :
              triggers = [i \in 1..3 |->
                  [name |-> NamesOf(trigger_time)[i],
                   df   |-> Frame(<<f1, f2, f3>>[i])]]
    /\ output_file = FALSE
    /\ env = NoEnv
    /\ trade_date = 0
    /\ attempts = <<>>
    /\ snapshot = EmptyFrame
    /\ prev_snapshot = EmptyFrame
    /\ cap_df = EmptyFrame
    /\ final_results = NoResults
    /\ output_data = NoDoc
    /\ stages = NoStages
    /\ outcome = "running"
    /\ NoBot

SelectFinal ==
    /\ pc = "alloc_call"
    /\ final_results' = select_final_tickers(triggers)
    /\ pc' = "alloc_done"
    /\ outcome' = "returned"
    /\ UNCHANGED <<botVars, stages, trigger_time, output_file, env, trade_date, attempts, snapshot,
                   prev_snapshot, cap_df, triggers, output_data>>

AllocNext == SelectFinal

SpecAlloc == AllocInit /\ [][AllocNext]_vars

----------------------------------------------------------------------------
(* Vocabulary of the allocator properties *)

AllocDone == pc = "alloc_done"

\* every (category, row) pair of the trigger results
TriggerRows ==
    {<<triggers[i].name, triggers[i].df.rows[k]>> :
        <<i, k>> \in {<<i, k>> \in (1..Len(triggers)) \X (1..ResultRows) :
                        k <= Len(triggers[i].df.rows)}}

TriggerTickers == {p[2].ticker : p \in TriggerRows}

SomeResult == \E i \in 1..Len(triggers) : ~IsEmpty(triggers[i].df)

\* the (entry, row) positions of one tier of the allocation
Cells(tier) ==
    {<<i, k>> \in (1..Len(tier)) \X (1..(ResultRows * MaxPremium)) :
        k <= Len(tier[i].rows)}

TierTickers(tier) == {tier[c[1]].rows[c[2]].ticker : c \in Cells(tier)}

PremiumTickers == TierTickers(final_results.premium)

TopOf(i) == triggers[i].df.rows[1].ticker

\* C1: no ticker occurs twice in premium, within one category or across
\* categories, and premium holds at most 3 distinct tickers.
PremiumNoDuplicateAtMostThree ==
    AllocDone =>
        LET P == final_results.premium IN
        /\ \A c, d \in Cells(P) :
              c # d => P[c[1]].rows[c[2]].ticker # P[d[1]].rows[d[2]].ticker
        /\ \A i, j \in 1..Len(P) : i # j => P[i].name # P[j].name
        /\ Cardinality(PremiumTickers) <= MaxPremium

\* C1 witness: one ticker tops two categories and more than 3 distinct
\* tickers were offered.
PremiumSharedTopWitness ==
    /\ AllocDone
    /\ \E i, j \in 1..Len(triggers) :
          /\ i # j
          /\ ~IsEmpty(triggers[i].df) /\ ~IsEmpty(triggers[j].df)
          /\ TopOf(i) = TopOf(j)
    /\ Cardinality(TriggerTickers) > MaxPremium
    /\ Cardinality(PremiumTickers) = MaxPremium

\* C2 (as claimed): with a non-empty result, free holds the row of the
\* highest composite score over every (category, ticker) row, under the
\* category in which it has that score.
FreeIsGlobalTopRow ==
    (AllocDone /\ SomeResult) =>
        /\ Len(final_results.free) = 1
        /\ Len(final_results.free[1].rows) = 1
        /\ LET f == final_results.free[1] IN
           /\ <<f.name, f.rows[1]>> \in TriggerRows
           /\ \A p \in TriggerRows : RGe(f.rows[1].score, p[2].score)

\* C3: free holds exactly one row in exactly one category when a result is
\* non-empty, and nothing when every result is empty.
FreeHoldsOneOrNone ==
    AllocDone =>
        IF SomeResult
        THEN /\ Len(final_results.free) = 1
             /\ Len(final_results.free[1].rows) = 1
        ELSE final_results.free = <<>>

\* C3 witness: two categories have results of several rows and free holds
\* its single row.
FreeOneOfManyWitness ==
    /\ AllocDone
    /\ \E i, j \in 1..Len(triggers) :
          i # j /\ Len(triggers[i].df.rows) > 1 /\ Len(triggers[j].df.rows) > 1
    /\ Cardinality(TierTickers(final_results.free)) = 1

\* the pool as select_final_tickers builds it, and a ticker's score in it
PoolOf(trigs) == CollectPool(trigs, {}, <<>>)
PoolScore(t) ==
    LET pool == PoolOf(triggers)
        i == CHOOSE i \in 1..Len(pool) : pool[i].ticker = t
    IN  pool[i].score

FirstPassTickers == FirstPass(triggers, [tickers |-> {}, result |-> <<>>]).tickers

Min(a, b) == IF a < b THEN a ELSE b

\* C5: premium holds min(3, number of distinct tickers offered) tickers, and
\* no ticker left out has a higher pool score than one the second pass added.
PremiumFilledInScoreOrder ==
    AllocDone =>
        /\ Cardinality(PremiumTickers) = Min(MaxPremium, Cardinality(TriggerTickers))
        /\ PremiumTickers \subseteq TriggerTickers
        /\ \A t \in TriggerTickers \ PremiumTickers :
           \A u \in PremiumTickers \ FirstPassTickers :
              ~RGt(PoolScore(t), PoolScore(u))

\* C5 witness: the second pass added a ticker and another, of a strictly
\* lower pool score, was left out.
SecondPassWitness ==
    /\ AllocDone
    /\ \E t \in TriggerTickers \ PremiumTickers :
       \E u \in PremiumTickers \ FirstPassTickers :
          RGt(PoolScore(u), PoolScore(t))

----------------------------------------------------------------------------
(* SpecTrig: each trigger applied to every universe of at most MaxRows     *)
(* tickers whose fields are drawn from small sets placed around that       *)
(* trigger's thresholds.  Prices are positive, as they are for every       *)
(* ticker that traded.                                                     *)

Max2(a, b) == IF a > b THEN a ELSE b
Min2(a, b) == IF a < b THEN a ELSE b

\* one ticker's data: today's row, the prior day's close and volume, whether
\* the prior day's table lists it, and its market cap (-1: not in the table)
Profile(open, close, high, volume, value, pvol, inprev, cap) ==
    [open |-> open, close |-> close, high |-> high, low |-> Min2(open, close),
     volume |-> volume, value |-> value, pvol |-> pvol, pclose |-> 100,
     inprev |-> inprev, cap |-> cap]

\* <<volume, prior volume>>: growth of 20, 30 and 1200 percent, and a prior
\* volume of 0
SurgeVolumes == {<<12, 10>>, <<13, 10>>, <<130, 10>>, <<13, 0>>}
\* growth of 40, 50 and 1200 percent, and a prior volume of 0
FlatVolumes == {<<14, 10>>, <<15, 10>>, <<130, 10>>, <<15, 0>>}
\* volume equal to, above and far above the prior volume, and a prior volume of 0
StrengthVolumes == {<<10, 10>>, <<13, 10>>, <<13, 0>>}
\* <<close, high>> with open = low = 100: closing at the high, closing at
\* half the range, and no range at all
StrengthShapes == {<<103, 103>>, <<103, 106>>, <<100, 100>>}

\* <<close, volume, value>> with open 100: a rise of 2, 3 and 6 percent, a
\* volume of 13 and 130, a value below, at and above the floor of Daily Rise
\* Top
DailyRiseShapes ==
    {<<102, 13, 20>>,
     <<103, 13, 9>>, <<103, 13, 10>>, <<103, 13, 20>>, <<103, 13, 40>>,
     <<103, 130, 9>>, <<103, 130, 20>>,
     <<106, 13, 10>>, <<106, 13, 20>>, <<106, 13, 40>>,
     <<106, 130, 9>>, <<106, 130, 40>>}

ProfilesOf(name) ==
    CASE name = "volume_surge" ->
            {Profile(100, c, Max2(100, c), v[1], tv, v[2], TRUE, 100) :
                c \in {99, 103}, v \in SurgeVolumes, tv \in {4, 5}}
      [] name = "gap_up" ->
            {Profile(o, c, Max2(o, c), 13, tv, 10, ip, 100) :
                o \in {100, 101}, c \in {99, 103}, tv \in {4, 5}, ip \in BOOLEAN}
      [] name = "value_to_cap" ->
            {Profile(100, c, Max2(100, c), 13, tv, 10, TRUE, cap) :
                c \in {99, 103}, tv \in {4, 5}, cap \in {-1, 99, 100, 200}}
      [] name = "daily_rise" ->
            {Profile(100, d[1], d[1], d[2], d[3], 10, TRUE, 100) : d \in DailyRiseShapes}
      [] name = "closing_strength" ->
            {Profile(100, c[1], c[2], v[1], tv, v[2], TRUE, 100) :
                c \in StrengthShapes, v \in StrengthVolumes, tv \in {4, 5}}
      [] name = "volume_surge_flat" ->
            {Profile(100, c, Max2(100, c), v[1], tv, v[2], TRUE, 100) :
                c \in {99, 106}, v \in FlatVolumes, tv \in {4, 5}}

RECURSIVE SetToSeq(_)
SetToSeq(S) ==
    IF S = {} THEN <<>>
    ELSE LET x == CHOOSE x \in S : TRUE IN <<x>> \o SetToSeq(S \ {x})

ProfileSeq == [name \in TriggerNames |-> SetToSeq(ProfilesOf(name))]

\* the non-decreasing sequences of n indices in lo..hi
RECURSIVE NonDecreasing(_, _, _)
NonDecreasing(n, lo, hi) ==
    IF n = 0 THEN {<<>>}
    ELSE UNION {{<<k>> \o t : t \in NonDecreasing(n - 1, k, hi)} : k \in lo..hi}

\* A trigger's outcomes do not depend on the order of the rows (filters,
\* mean, min and max are order-free and rows of equal score may be sorted
\* either way), so listing the tickers by profile loses no case.
Universes(name) ==
    UNION {NonDecreasing(n, 1, Len(ProfileSeq[name])) : n \in 1..MaxRows}

TodayRow(t, p) ==
    [ticker |-> t, open |-> p.open, high |-> p.high, low |-> p.low,
     close |-> p.close, volume |-> p.volume, value |-> p.value]
PrevRow(t, p) ==
    [ticker |-> t, open |-> p.pclose, high |-> p.pclose, low |-> p.pclose,
     close |-> p.pclose, volume |-> p.pvol, value |-> 0]

SnapshotOf(ps) ==
    [cols |-> BaseCols, rows |-> [t \in 1..Len(ps) |-> TodayRow(t, ps[t])]]
RECURSIVE PrevRowsOf(_, _)
PrevRowsOf(ps, t) ==
    IF t > Len(ps) THEN <<>>
    ELSE (IF ps[t].inprev THEN <<PrevRow(t, ps[t])>> ELSE <<>>) \o PrevRowsOf(ps, t + 1)
RECURSIVE CapRowsOf(_, _)
CapRowsOf(ps, t) ==
    IF t > Len(ps) THEN <<>>
    ELSE (IF ps[t].cap >= 0 THEN <<[ticker |-> t, cap |-> ps[t].cap]>> ELSE <<>>)
         \o CapRowsOf(ps, t + 1)
PrevSnapshotOf(ps) == [cols |-> BaseCols, rows |-> PrevRowsOf(ps, 1)]
CapFrameOf(ps) == [cols |-> {"cap"}, rows |-> CapRowsOf(ps, 1)]

TrigInit ==
    /\ pc = "trig_call"
    /\ \E name \in TriggerNames :
       \E u \in Universes(name) :
       \E down \in BOOLEAN :
         LET ps == [i \in 1..Len(u) |-> ProfileSeq[name][u[i]]] IN
         /\ env = [focus |-> name,
                   name_fail |-> IF down THEN 1..Len(u) ELSE {}]
         /\ snapshot = SnapshotOf(ps)
         /\ prev_snapshot = PrevSnapshotOf(ps)
         /\ cap_df = CapFrameOf(ps)
    /\ trigger_time = "none"
    /\ output_file = FALSE
    /\ trade_date = 0
    /\ attempts = <<>>
    /\ triggers = <<>>
    /\ final_results = NoResults
    /\ output_data = NoDoc
    /\ stages = NoStages
    /\ outcome = "running"
    /\ NoBot

\* a trigger call ends with one of its outcomes outs
TriggerCall(name, st, outs) ==
    /\ pc = "trig_call"
    /\ \E o \in outs :
         /\ triggers' = <<[name |-> name, df |-> o.df]>>
         /\ outcome' = IF o.raised THEN "raised_lookup" ELSE "returned"
    /\ stages' = st
    /\ pc' = "trig_done"
    /\ snapshot' = SharedAfter(snapshot)
    /\ prev_snapshot' = SharedAfter(prev_snapshot)
    /\ cap_df' = SharedAfter(cap_df)
    /\ UNCHANGED <<botVars, trigger_time, output_file, env, trade_date, attempts,
                   final_results, output_data>>

CallVolumeSurge ==
    /\ env.focus = "volume_surge"
    /\ TriggerCall("volume_surge", VolumeSurgeStages(snapshot, prev_snapshot),
          trigger_morning_volume_surge(snapshot, prev_snapshot, env.name_fail))

CallGapUp ==
    /\ env.focus = "gap_up"
    /\ TriggerCall("gap_up", GapUpStages(snapshot, prev_snapshot),
          trigger_morning_gap_up_momentum(snapshot, prev_snapshot, env.name_fail))

CallValueToCap ==
    /\ env.focus = "value_to_cap"
    /\ TriggerCall("value_to_cap", ValueToCapStages(snapshot, prev_snapshot, cap_df),
          trigger_morning_value_to_cap_ratio(snapshot, prev_snapshot, cap_df,
                                             env.name_fail))

CallDailyRise ==
    /\ env.focus = "daily_rise"
    /\ TriggerCall("daily_rise", DailyRiseStages(snapshot, prev_snapshot),
          trigger_afternoon_daily_rise_top(snapshot, prev_snapshot, env.name_fail))

CallClosingStrength ==
    /\ env.focus = "closing_strength"
    /\ TriggerCall("closing_strength", ClosingStrengthStages(snapshot, prev_snapshot),
          trigger_afternoon_closing_strength(snapshot, prev_snapshot, env.name_fail))

CallVolumeSurgeFlat ==
    /\ env.focus = "volume_surge_flat"
    /\ TriggerCall("volume_surge_flat", VolumeSurgeFlatStages(snapshot, prev_snapshot),
          trigger_afternoon_volume_surge_flat(snapshot, prev_snapshot, env.name_fail))

TrigNext ==
    \/ CallVolumeSurge
    \/ CallGapUp
    \/ CallValueToCap
    \/ CallDailyRise
    \/ CallClosingStrength
    \/ CallVolumeSurgeFlat

SpecTrig == TrigInit /\ [][TrigNext]_vars

----------------------------------------------------------------------------
(* Spec: run_batch, one call from its first line to its return or raise,   *)
(* against every bounded answer of the data provider.                      *)

Days == 0..NumDays

\* stock_api.get_nearest_business_day_in_a_week(date, prev=True): the latest
\* business day at or before date.  run_batch resolves today with it (line
\* 618) and get_previous_snapshot steps one day back before calling it
\* (lines 44-51), so a business day resolves to itself.
NearestBusinessDay(business, date) ==
    CHOOSE d \in business : d <= date /\ \A e \in business : e <= date => e <= d

\* three tickers' data for the run: one that passes every filter of both
\* modes, one that passes most, one that passes none
BatchProfiles ==
    << [open |-> 100, close |-> 103, high |-> 103, low |-> 100, volume |-> 130,
        value |-> 20, pvol |-> 10, pclose |-> 99, inprev |-> TRUE, cap |-> 100],
       [open |-> 100, close |-> 104, high |-> 106, low |-> 100, volume |-> 60,
        value |-> 10, pvol |-> 40, pclose |-> 100, inprev |-> TRUE, cap |-> 200],
       [open |-> 100, close |-> 99, high |-> 100, low |-> 99, volume |-> 60,
        value |-> 4, pvol |-> 60, pclose |-> 100, inprev |-> TRUE, cap |-> 100] >>

BatchUniverses ==
    UNION {NonDecreasing(n, 1, Len(BatchProfiles)) : n \in 1..MaxBatchRows}

CapStates == {"ok", "empty", "no_cap_column"}

Init ==
    /\ pc = "start"
    /\ trigger_time \in Modes \cup {"other"}
    /\ output_file \in BOOLEAN
    /\ \E business \in {B \in SUBSET Days : {0, 1} \subseteq B} :
       \E has_data \in SUBSET business :
       \E u \in BatchUniverses :
       \E fail \in SUBSET (1..Len(u)) :
       \E cs \in CapStates :
          env = [today     |-> NumDays,
                 business  |-> business,
                 has_data  |-> has_data,
                 cap_state |-> cs,
                 name_fail |-> fail,
                 tickers   |-> [i \in 1..Len(u) |-> BatchProfiles[u[i]]]]
    /\ trade_date = -1
    /\ attempts = <<>>
    /\ snapshot = EmptyFrame
    /\ prev_snapshot = EmptyFrame
    /\ cap_df = EmptyFrame
    /\ triggers = <<>>
    /\ final_results = NoResults
    /\ output_data = NoDoc
    /\ stages = NoStages
    /\ outcome = "running"
    /\ NoBot

\* lines 617-619
ResolveTradeDate ==
    /\ pc = "start"
    /\ trade_date' = NearestBusinessDay(env.business, env.today)
    /\ pc' = "get_snapshot"
    /\ UNCHANGED <<botVars, stages, trigger_time, output_file, env, attempts, snapshot, prev_snapshot,
                   cap_df, triggers, final_results, output_data, outcome>>

\* lines 621-624 with get_snapshot, lines 20-35: an empty table raises
\* ValueError, which the except clause catches
GetSnapshot ==
    /\ pc = "get_snapshot"
    /\ attempts' = Append(attempts, trade_date)
    /\ IF trade_date \in env.has_data
       THEN /\ snapshot' = SnapshotOf(env.tickers)
            /\ pc' = "get_previous"
       ELSE /\ snapshot' = snapshot
            /\ pc' = "retry"
    /\ UNCHANGED <<botVars, stages, trigger_time, output_file, env, trade_date, prev_snapshot, cap_df,
                   triggers, final_results, output_data, outcome>>

\* line 625
RetryDate(business, date) == NearestBusinessDay(business, date)

\* lines 625-627: the second get_snapshot is outside any try
RetrySnapshot ==
    /\ pc = "retry"
    /\ LET d == RetryDate(env.business, trade_date) IN
       /\ trade_date' = d
       /\ attempts' = Append(attempts, d)
       /\ IF d \in env.has_data
          THEN /\ snapshot' = SnapshotOf(env.tickers)
               /\ pc' = "get_previous"
               /\ outcome' = outcome
          ELSE /\ snapshot' = snapshot
               /\ pc' = "done"
               /\ outcome' = "raised_data_unavailable"
    /\ UNCHANGED <<botVars, stages, trigger_time, output_file, env, prev_snapshot, cap_df, triggers,
                   final_results, output_data>>

\* line 629 with get_previous_snapshot, lines 37-64
GetPreviousSnapshot ==
    /\ pc = "get_previous"
    /\ LET prev_date == NearestBusinessDay(env.business, trade_date - 1) IN
       IF prev_date \in env.has_data
       THEN /\ prev_snapshot' = PrevSnapshotOf(env.tickers)
            /\ pc' = "get_cap"
            /\ outcome' = outcome
       ELSE /\ prev_snapshot' = prev_snapshot
            /\ pc' = "done"
            /\ outcome' = "raised_data_unavailable"
    /\ UNCHANGED <<botVars, stages, trigger_time, output_file, env, trade_date, attempts, snapshot,
                   cap_df, triggers, final_results, output_data>>

\* line 632 with get_market_cap_df, lines 66-76
GetMarketCap ==
    /\ pc = "get_cap"
    /\ IF env.cap_state = "empty"
       THEN /\ cap_df' = cap_df
            /\ pc' = "done"
            /\ outcome' = "raised_data_unavailable"
       ELSE /\ cap_df' = [cols |-> IF env.cap_state = "ok" THEN {"cap"} ELSE {},
                          rows |-> CapRowsOf(env.tickers, 1)]
            /\ pc' = "triggers"
            /\ outcome' = outcome
    /\ UNCHANGED <<botVars, stages, trigger_time, output_file, env, trade_date, attempts, snapshot,
                   prev_snapshot, triggers, final_results, output_data>>

\* One trigger call of lines 638-640 and 645-647: the k-th trigger of the
\* mode ends with one of its outcomes outs.  No call is inside a try: an
\* error a trigger raises leaves run_batch.
BatchTrigger(mode, k, outs) ==
    /\ pc = "triggers"
    /\ trigger_time = mode
    /\ Len(triggers) = k - 1
    /\ \E o \in outs :
         IF o.raised
         THEN /\ triggers' = triggers
              /\ pc' = "done"
              /\ outcome' = "raised_lookup"
         ELSE /\ triggers' = Append(triggers, [name |-> NamesOf(mode)[k], df |-> o.df])
              /\ pc' = IF k = Len(NamesOf(mode)) THEN "select" ELSE "triggers"
              /\ outcome' = outcome
    /\ snapshot' = SharedAfter(snapshot)
    /\ prev_snapshot' = SharedAfter(prev_snapshot)
    /\ cap_df' = SharedAfter(cap_df)
    /\ UNCHANGED <<botVars, stages, trigger_time, output_file, env, trade_date, attempts,
                   final_results, output_data>>

\* line 638
MorningVolumeSurge ==
    /\ trigger_time = "morning"
    /\ BatchTrigger("morning", 1,
        trigger_morning_volume_surge(snapshot, prev_snapshot, env.name_fail))
\* line 639
MorningGapUp ==
    /\ trigger_time = "morning"
    /\ BatchTrigger("morning", 2,
        trigger_morning_gap_up_momentum(snapshot, prev_snapshot, env.name_fail))
\* line 640
MorningValueToCap ==
    /\ trigger_time = "morning"
    /\ BatchTrigger("morning", 3,
        trigger_morning_value_to_cap_ratio(snapshot, prev_snapshot, cap_df,
                                           env.name_fail))
\* line 645
AfternoonDailyRise ==
    /\ trigger_time = "afternoon"
    /\ BatchTrigger("afternoon", 1,
        trigger_afternoon_daily_rise_top(snapshot, prev_snapshot, env.name_fail))
\* line 646
AfternoonClosingStrength ==
    /\ trigger_time = "afternoon"
    /\ BatchTrigger("afternoon", 2,
        trigger_afternoon_closing_strength(snapshot, prev_snapshot, env.name_fail))
\* line 647
AfternoonVolumeSurgeFlat ==
    /\ trigger_time = "afternoon"
    /\ BatchTrigger("afternoon", 3,
        trigger_afternoon_volume_surge_flat(snapshot, prev_snapshot, env.name_fail))

\* lines 649-651: any other mode logs an error and returns None
InvalidMode ==
    /\ pc = "triggers"
    /\ trigger_time \notin Modes
    /\ pc' = "done"
    /\ outcome' = "returned_none"
    /\ UNCHANGED <<botVars, stages, trigger_time, output_file, env, trade_date, attempts, snapshot,
                   prev_snapshot, cap_df, triggers, final_results, output_data>>

\* lines 653-667: the results are logged and the final selection made
SelectFinalResults ==
    /\ pc = "select"
    /\ final_results' = select_final_tickers(triggers)
    /\ pc' = IF output_file THEN "write" ELSE "return"
    /\ UNCHANGED <<botVars, stages, trigger_time, output_file, env, trade_date, attempts, snapshot,
                   prev_snapshot, cap_df, triggers, output_data, outcome>>

\* lines 697-705: the category-specific keys of a stock record
SpecificFields(name, cols) ==
    IF "vol_growth" \in cols /\ name = "volume_surge" THEN {"volume_increase"}
    ELSE IF "gap" \in cols THEN {"gap_rate"}
    ELSE IF "value_ratio" \in cols THEN {"trade_value_ratio", "market_cap"}
    ELSE IF "strength" \in cols THEN {"closing_strength"}
    ELSE {}

\* mutant: only the first stock of a category is written
DocTier_FirstOnly(trigs, tier) ==
    [i \in 1..Len(tier) |->
        [name   |-> tier[i].name,
         stocks |-> <<[code  |-> tier[i].rows[1].ticker,
                       extra |-> SpecificFields(tier[i].name,
                                                Lookup(trigs, tier[i].name).cols)]>>]]

\* lines 681-707: one list of stock records per category of a tier
DocTier(trigs, tier) ==
    [i \in 1..Len(tier) |->
        [name   |-> tier[i].name,
         stocks |-> [k \in 1..Len(tier[i].rows) |->
                       [code  |-> tier[i].rows[k].ticker,
                        extra |-> SpecificFields(tier[i].name,
                                                 Lookup(trigs, tier[i].name).cols)]]]]

\* lines 669-720
WriteOutput ==
    /\ pc = "write"
    /\ output_data' =
          [written  |-> TRUE,
           free     |-> DocTier(triggers, final_results.free),
           premium  |-> DocTier(triggers, final_results.premium),
           metadata |-> [trigger_mode |-> trigger_time, trade_date |-> trade_date]]
    /\ pc' = "return"
    /\ UNCHANGED <<botVars, stages, trigger_time, output_file, env, trade_date, attempts, snapshot,
                   prev_snapshot, cap_df, triggers, final_results, outcome>>

\* line 722
ReturnResults ==
    /\ pc = "return"
    /\ outcome' = "returned"
    /\ pc' = "done"
    /\ UNCHANGED <<botVars, stages, trigger_time, output_file, env, trade_date, attempts, snapshot,
                   prev_snapshot, cap_df, triggers, final_results, output_data>>

Next ==
    \/ ResolveTradeDate
    \/ GetSnapshot
    \/ RetrySnapshot
    \/ GetPreviousSnapshot
    \/ GetMarketCap
    \/ MorningVolumeSurge
    \/ MorningGapUp
    \/ MorningValueToCap
    \/ AfternoonDailyRise
    \/ AfternoonClosingStrength
    \/ AfternoonVolumeSurgeFlat
    \/ InvalidMode
    \/ SelectFinalResults
    \/ WriteOutput
    \/ ReturnResults

Spec == Init /\ [][Next]_vars

----------------------------------------------------------------------------
(* Properties of the triggers *)

TrigDone == pc = "trig_done"
TrigReturned == TrigDone /\ outcome = "returned"
ResultRowsOf == triggers[1].df.rows

\* C9: a trigger returns at most 3 rows, in descending order of the
\* composite score.
TriggerResultAtMostThreeDescending ==
    TrigReturned =>
        /\ Len(ResultRowsOf) <= ResultRows
        /\ \A i, j \in 1..Len(ResultRowsOf) :
              i < j => RGe(ResultRowsOf[i].score, ResultRowsOf[j].score)

\* C9 witness: four tickers all pass Daily Rise Top's filters, and the
\* trigger returns three rows that do not all have the same score.
TriggerCutWitness ==
    /\ TrigReturned
    /\ env.focus = "daily_rise"
    /\ Len(snapshot.rows) > ResultRows
    /\ \A i \in 1..Len(snapshot.rows) :
          /\ snapshot.rows[i].value >= MinValueDailyRise
          /\ 100 * snapshot.rows[i].close >= 103 * snapshot.rows[i].open
    /\ Len(ResultRowsOf) = ResultRows
    /\ RGt(ResultRowsOf[1].score, ResultRowsOf[ResultRows].score)

\* The scenario of C10: a universe of two tickers x and y, both listed the
\* day before, where x has a (positive) volume of 1.3 times yesterday's, a
\* trade value at or above the floor and a close above its open, and y has a
\* trade value below the floor.
SurgeScenario(x, y) ==
    /\ env.focus = "volume_surge"
    /\ IndexSet(snapshot) = {x, y} /\ x # y
    /\ IndexSet(prev_snapshot) = {x, y}
    /\ LET X == RowOf(snapshot, x)
           Y == RowOf(snapshot, y)
       IN  /\ X.volume > 0
           /\ 10 * X.volume = 13 * RowOf(prev_snapshot, x).volume
           /\ X.value >= MinValueDefault
           /\ X.close > X.open
           /\ Y.value < MinValueDefault

\* x's volume is at least 0.2 times the mean volume of x and y
LiquidBesides(x, y) ==
    9 * RowOf(snapshot, x).volume >= RowOf(snapshot, y).volume

\* C10 (as claimed, with the display-name lookup succeeding): in the
\* scenario the trigger returns exactly [x], whatever y's volume.
SurgeReturnsXForAllVolumes ==
    \A x, y \in 1..MaxRows :
        (TrigDone /\ SurgeScenario(x, y) /\ env.name_fail = {}) =>
            /\ outcome = "returned"
            /\ Index(triggers[1].df) = <<x>>

\* C10 (amended): in the scenario, when moreover y's volume is at most 9
\* times x's, the trigger selects exactly [x]: it returns [x] when the
\* lookup of x's display name succeeds and raises the lookup's error
\* otherwise.
SurgeReturnsXWhenLiquid ==
    \A x, y \in 1..MaxRows :
        (TrigDone /\ SurgeScenario(x, y) /\ LiquidBesides(x, y)) =>
            IF x \in env.name_fail
            THEN outcome = "raised_lookup"
            ELSE /\ outcome = "returned"
                 /\ Index(triggers[1].df) = <<x>>

\* C10 witness: the scenario with y trading at least as many shares as x,
\* and [x] returned.
SurgeScenarioWitness ==
    \E x, y \in 1..MaxRows :
        /\ TrigReturned
        /\ SurgeScenario(x, y)
        /\ LiquidBesides(x, y)
        /\ RowOf(snapshot, y).volume >= RowOf(snapshot, x).volume
        /\ Index(triggers[1].df) = <<x>>

----------------------------------------------------------------------------
(* Properties of run_batch *)

BatchDone == pc = "done"
ValidMode == trigger_time \in Modes
AllTriggersRan == Len(triggers) = Len(MorningNames)
AllTriggersEmpty ==
    AllTriggersRan /\ \A i \in 1..Len(triggers) : IsEmpty(triggers[i].df)
EmptyAllocation == [free |-> <<>>, premium |-> <<>>]
FullAllocation == final_results # NoResults

\* C4: when every trigger of the run returned an empty result, the run
\* raises nothing and ends returning free = {} and premium = {} (and any
\* document written holds no category).
AllEmptyCompletesNormally ==
    AllTriggersEmpty =>
        /\ outcome \in {"running", "returned"}
        /\ pc \in {"select", "write", "return", "done"}
        /\ pc # "select" => final_results = EmptyAllocation
        /\ output_data.written =>
              output_data.free = <<>> /\ output_data.premium = <<>>
        /\ BatchDone => outcome = "returned"

\* C4 witness: a run over tickers none of which qualifies has ended, its
\* three triggers empty, with the empty allocation returned and written.
AllEmptyWitness ==
    /\ BatchDone
    /\ AllTriggersEmpty
    /\ ~IsEmpty(snapshot)
    /\ outcome = "returned"
    /\ final_results = EmptyAllocation
    /\ output_data.written

\* C6 (as claimed): an error raised inside one trigger never leaves
\* run_batch; the run goes on to the remaining triggers and the allocation.
TriggerFailureIsolated ==
    /\ outcome # "raised_lookup"
    /\ (BatchDone /\ ValidMode /\ outcome # "raised_data_unavailable") =>
          AllTriggersRan /\ FullAllocation

\* C7 (as claimed): get_snapshot is called at most twice; a second call is
\* for the business day strictly before the date that failed; when it fails
\* too the run raises and writes no document.
RetryStepsToPrecedingDay ==
    /\ Len(attempts) <= 2
    /\ Len(attempts) = 2 =>
          /\ attempts[1] \notin env.has_data
          /\ attempts[2] \in env.business
          /\ attempts[2] < attempts[1]
          /\ \A d \in env.business : ~(attempts[2] < d /\ d < attempts[1])
    /\ (Len(attempts) = 2 /\ attempts[2] \notin env.has_data) =>
          /\ pc = "done"
          /\ outcome = "raised_data_unavailable"
          /\ ~output_data.written

\* C8 (as claimed, for the modes morning and afternoon): a call ends either
\* returning a full allocation or raising the data-unavailable error, and a
\* document is written only with a full allocation.
ReturnsAllocationOrDataUnavailable ==
    ValidMode =>
        /\ BatchDone =>
              \/ outcome = "returned" /\ FullAllocation
              \/ outcome = "raised_data_unavailable"
        /\ output_data.written => FullAllocation

----------------------------------------------------------------------------
(* Properties of the filters and the scoring inside the triggers *)

\* C11: the frame apply_absolute_filters returns holds exactly the rows of
\* its input with value >= threshold and volume >= 0.2 x the mean volume of
\* the whole input; the threshold is 1,000,000,000 for Daily Rise Top and
\* 500,000,000 for the other triggers; the input rows are still those of
\* today's table.
AbsoluteFilterExact ==
    TrigDone =>
        LET inp == stages.input
            threshold == IF env.focus = "daily_rise" THEN MinValueDailyRise
                         ELSE MinValueDefault
        IN  /\ stages.min_value = threshold
            /\ MinValueDailyRise = 2 * MinValueDefault
            /\ stages.kept =
                  SelectSeq(inp, LAMBDA r : /\ r.value >= threshold
                                            /\ 5 * Len(inp) * r.volume >= SumVolume(inp))
            /\ \A i \in 1..Len(inp) : inp[i] = RowOf(snapshot, inp[i].ticker)

\* C11 witness: a Daily Rise Top call where the filter dropped a row for a
\* value between the two thresholds and dropped another, of sufficient
\* value, whose volume is below 0.2 x the mean of the input but not below 0.2
\* x the mean of the rows of sufficient value.
AbsoluteFilterWitness ==
    /\ TrigDone
    /\ env.focus = "daily_rise"
    /\ stages.kept # <<>>
    /\ \E i \in 1..Len(stages.input) :
          /\ stages.input[i].value >= MinValueDefault
          /\ stages.input[i].value < MinValueDailyRise
    /\ LET rich == SelectSeq(stages.input, LAMBDA r : r.value >= MinValueDailyRise)
       IN  \E i \in 1..Len(rich) :
              /\ rich[i].ticker \notin {stages.kept[k].ticker : k \in 1..Len(stages.kept)}
              /\ 5 * Len(rich) * rich[i].volume >= SumVolume(rich)

KeptTickers == {stages.kept[i].ticker : i \in 1..Len(stages.kept)}
PreTickers == {r.ticker : r \in stages.pre}

\* C12: of the rows that pass the absolute filter, Morning Volume Surge's
\* pre-score filter keeps every one whose volume is exactly 1.3 times the
\* prior day's (a growth of exactly 30 percent) and removes every one whose
\* volume is below that; Gap-Up Momentum's keeps every one whose open is
\* exactly 1.01 times the prior close (a gap of exactly 1 percent).
PreScoreThresholdsInclusive ==
    TrigDone =>
        \A t \in KeptTickers :
            LET today == RowOf(snapshot, t)
                prior == RowOf(prev_snapshot, t)
            IN  /\ (env.focus = "volume_surge" /\ prior.volume > 0
                       /\ 10 * today.volume = 13 * prior.volume) => t \in PreTickers
                /\ (env.focus = "volume_surge" /\ prior.volume > 0
                       /\ 10 * today.volume < 13 * prior.volume) => t \notin PreTickers
                /\ (env.focus = "gap_up" /\ prior.close > 0
                       /\ 100 * today.open = 101 * prior.close) => t \in PreTickers

\* C12 witness: a Morning Volume Surge call where two rows passed the
\* absolute filter, one with a growth of exactly 30 percent, kept, and one
\* with a growth of 20 percent, removed.
PreScoreBoundaryWitness ==
    /\ TrigDone
    /\ env.focus = "volume_surge"
    /\ \E t, u \in KeptTickers :
          /\ 10 * RowOf(snapshot, t).volume = 13 * RowOf(prev_snapshot, t).volume
          /\ RowOf(prev_snapshot, t).volume > 0
          /\ t \in PreTickers
          /\ 10 * RowOf(snapshot, u).volume = 12 * RowOf(prev_snapshot, u).volume
          /\ RowOf(prev_snapshot, u).volume > 0
          /\ u \notin PreTickers

\* the columns a trigger normalizes, in the order of its weighted sum, and
\* the weights (lines 196, 236-247, 356-367, 420, 464-475, 523)
ScoreColumns(name) ==
    CASE name = "volume_surge"      -> <<"vol_growth", "volume">>
      [] name = "gap_up"            -> <<"gap", "intraday", "value">>
      [] name = "value_to_cap"      -> <<"value_ratio", "value", "intraday">>
      [] name = "daily_rise"        -> <<"intraday", "value">>
      [] name = "closing_strength"  -> <<"strength", "vol_growth", "value">>
      [] name = "volume_surge_flat" -> <<"vol_growth", "value">>

ScoreWeights(name) ==
    IF Len(ScoreColumns(name)) = 2 THEN <<Rat(6, 10), Rat(4, 10)>>
    ELSE <<Rat(5, 10), Rat(3, 10), Rat(2, 10)>>

Cell(r, col) ==
    CASE col = "vol_growth"  -> r.vol_growth
      [] col = "volume"      -> RInt(r.volume)
      [] col = "value"       -> RInt(r.value)
      [] col = "intraday"    -> r.intraday
      [] col = "gap"         -> r.gap
      [] col = "value_ratio" -> r.value_ratio
      [] col = "strength"    -> r.strength

RECURSIVE SumSeq(_)
SumSeq(xs) == IF xs = <<>> THEN RInt(0) ELSE RAdd(Head(xs), SumSeq(Tail(xs)))

InUnit(x) == RGe(x, RInt(0)) /\ RGe(RInt(1), x)
Same(x, y) == RGe(x, y) /\ RGe(y, x)

CurrentColumns == ScoreColumns(env.focus)
CurrentWeights == ScoreWeights(env.focus)

\* column k of the candidate set holds at least two different values
Varies(k) ==
    \E r, q \in stages.scored : RGt(Cell(r, CurrentColumns[k]), Cell(q, CurrentColumns[k]))

\* C13: in each of the six triggers every scored candidate's composite
\* score lies in [0,1]; it is the weighted sum of the trigger's normalized
\* columns, each in [0,1], with non-negative weights that sum to 1; the
\* scored candidates are the rows left by the pre-score filter.
CompositeScoreInUnitInterval ==
    TrigDone =>
        /\ \A k \in 1..Len(CurrentWeights) : RGe(CurrentWeights[k], RInt(0))
        /\ Same(SumSeq(CurrentWeights), RInt(1))
        /\ {r.ticker : r \in stages.scored} = PreTickers
        /\ \A r \in stages.scored :
              /\ InUnit(r.score)
              /\ Len(r.norms) = Len(CurrentWeights)
              /\ \A k \in 1..Len(r.norms) : InUnit(r.norms[k])
              /\ Same(r.score,
                      SumSeq([k \in 1..Len(r.norms) |->
                                 RMul(r.norms[k], CurrentWeights[k])]))

\* C13 witness: a trigger scored at least three candidates, one with score
\* 1, one with score 0 and one strictly between.
CompositeScoreWitness ==
    /\ TrigDone
    /\ Cardinality(stages.scored) >= 3
    /\ \E r, q, m \in stages.scored :
          /\ Same(r.score, RInt(1))
          /\ Same(q.score, RInt(0))
          /\ RGt(m.score, RInt(0)) /\ RGt(RInt(1), m.score)

\* C14: a normalized column whose values over the candidate set are finite
\* and not all equal lies in [0,1], is 0 on every row holding the column's
\* minimum and 1 on every row holding its maximum, and keeps the order of the
\* values.
MinMaxNormalization ==
    TrigDone =>
        \A k \in 1..Len(CurrentColumns) :
            Varies(k) =>
                \A r \in stages.scored :
                    LET x == Cell(r, CurrentColumns[k]) IN
                    /\ InUnit(r.norms[k])
                    /\ (\A q \in stages.scored : RGe(Cell(q, CurrentColumns[k]), x))
                          => r.norms[k] = RInt(0)
                    /\ (\A q \in stages.scored : RGe(x, Cell(q, CurrentColumns[k])))
                          => r.norms[k] = RInt(1)
                    /\ \A q \in stages.scored :
                          /\ RGt(x, Cell(q, CurrentColumns[k])) => RGt(r.norms[k], q.norms[k])
                          /\ Same(x, Cell(q, CurrentColumns[k])) => r.norms[k] = q.norms[k]

\* C14 witness: a column of the candidate set holds a minimum above 0, a
\* maximum and a value between them, normalized to 0, 1 and a value strictly
\* between.
MinMaxWitness ==
    /\ TrigDone
    /\ \E k \in 1..Len(CurrentColumns) :
       \E lo, mid, hi \in stages.scored :
          /\ RGt(Cell(lo, CurrentColumns[k]), RInt(0))
          /\ RGt(Cell(mid, CurrentColumns[k]), Cell(lo, CurrentColumns[k]))
          /\ RGt(Cell(hi, CurrentColumns[k]), Cell(mid, CurrentColumns[k]))
          /\ lo.norms[k] = RInt(0)
          /\ hi.norms[k] = RInt(1)
          /\ RGt(mid.norms[k], RInt(0)) /\ RGt(RInt(1), mid.norms[k])

\* C15: a normalized column whose values over the candidate set are all
\* equal is 0 on every row (the divisor is 1, nothing is divided by zero); a
\* candidate set of one row gives that row the composite score 0.
ConstantColumnNormalizesToZero ==
    TrigDone =>
        /\ \A k \in 1..Len(CurrentColumns) :
              ~Varies(k) => \A r \in stages.scored : r.norms[k] = RInt(0)
        /\ Cardinality(stages.scored) = 1 =>
              \A r \in stages.scored : r.score = RInt(0)

\* C15 witness: a trigger scored a single candidate, gave it the score 0 and
\* returned it.
SingleCandidateWitness ==
    /\ TrigReturned
    /\ Cardinality(stages.scored) = 1
    /\ Len(ResultRowsOf) = 1
    /\ ResultRowsOf[1].score = RInt(0)
    /\ \A k \in 1..Len(CurrentColumns) : ResultRowsOf[1].norms[k] = RInt(0)

----------------------------------------------------------------------------
(* Properties of run_batch: lookups, the output document, the mode *)

Written == output_data.written
DocTiers == <<output_data.free, output_data.premium>>
AllocTiers == <<final_results.free, final_results.premium>>

\* C16 (as claimed): a display-name lookup that fails never ends the run
\* with its error and never costs a category its rows: Value-to-Cap's
\* result is one it gives when every lookup succeeds.
NameLookupFailureTolerated ==
    /\ outcome # "raised_lookup"
    /\ (trigger_time = "morning" /\ AllTriggersRan) =>
          triggers[3].df.rows \in
             {o.df.rows : o \in trigger_morning_value_to_cap_ratio(
                                   snapshot, prev_snapshot, cap_df, {})}

\* the category-specific keys C17 names for each category
ClaimedFields(name) ==
    CASE name \in {"volume_surge", "volume_surge_flat"} -> {"volume_increase"}
      [] name = "gap_up"           -> {"gap_rate"}
      [] name = "value_to_cap"     -> {"trade_value_ratio", "market_cap"}
      [] name = "closing_strength" -> {"closing_strength"}
      [] OTHER                     -> {}

\* C17 (as claimed): every stock record of the document, in free and in
\* premium, carries exactly the category-specific keys of its category.
RecordsCarryCategoryField ==
    Written =>
        \A t \in 1..2 : \A i \in 1..Len(DocTiers[t]) :
            \A k \in 1..Len(DocTiers[t][i].stocks) :
                DocTiers[t][i].stocks[k].extra = ClaimedFields(DocTiers[t][i].name)

\* C18 (as claimed): a run whose mode is neither morning nor afternoon ends
\* as a usage error -- the mode is rejected, whatever the data provider
\* answers -- with no trigger run, no allocation and no document.
InvalidModeIsUsageError ==
    ~ValidMode =>
        /\ triggers = <<>>
        /\ final_results = NoResults
        /\ ~Written
        /\ BatchDone => outcome = "returned_none"

\* C19: the document lists, tier by tier and category by category, exactly
\* the ticker codes of the allocation, and its metadata name the mode of the
\* run and the date of the snapshot the run used.
DocumentRoundTrip ==
    Written =>
        /\ \A t \in 1..2 :
              /\ Len(DocTiers[t]) = Len(AllocTiers[t])
              /\ \A i \in 1..Len(DocTiers[t]) :
                    /\ DocTiers[t][i].name = AllocTiers[t][i].name
                    /\ [k \in 1..Len(DocTiers[t][i].stocks) |->
                           DocTiers[t][i].stocks[k].code]
                         = [k \in 1..Len(AllocTiers[t][i].rows) |->
                               AllocTiers[t][i].rows[k].ticker]
        /\ output_data.metadata.trigger_mode = trigger_time
        /\ output_data.metadata.trade_date = attempts[Len(attempts)]
        /\ attempts[Len(attempts)] \in env.has_data

\* C19 witness: a document was written for an allocation whose premium tier
\* holds two tickers under one category.
DocumentRoundTripWitness ==
    /\ Written
    /\ Len(final_results.free) = 1
    /\ \E i \in 1..Len(final_results.premium) :
          /\ Len(final_results.premium[i].rows) >= 2
          /\ Len(output_data.premium[i].stocks) >= 2


----------------------------------------------------------------------------
(* telegram_ai_bot.py: the conversations of one user with the bot *)

MaxQueue == 1

\* the states of the three ConversationHandlers
END == "END"
CHOOSING_TICKER == "CHOOSING_TICKER"
ENTERING_AVGPRICE == "ENTERING_AVGPRICE"
ENTERING_PERIOD == "ENTERING_PERIOD"
ENTERING_TONE == "ENTERING_TONE"
ENTERING_BACKGROUND == "ENTERING_BACKGROUND"
REPORT_CHOOSING_TICKER == "REPORT_CHOOSING_TICKER"
HISTORY_CHOOSING_TICKER == "HISTORY_CHOOSING_TICKER"

EvaluateStates == {CHOOSING_TICKER, ENTERING_AVGPRICE, ENTERING_PERIOD,
                   ENTERING_TONE, ENTERING_BACKGROUND}

\* texts are sequences of characters
Digits == {"0", "1", "3", "5", "7", "9"}

\* the fallback stock map of load_stock_map, and the map loaded from the
\* file, where two names share a part
DefaultStockMap ==
    {[code |-> <<"0", "0", "5", "9", "3", "0">>, name |-> <<"s", "e">>],
     [code |-> <<"0", "1", "3", "7", "0", "0">>, name |-> <<"k", "m">>]}

LoadedStockMap ==
    DefaultStockMap \cup
    {[code |-> <<"0", "0", "5", "9", "3", "5">>, name |-> <<"s", "k">>]}

StockMaps == {LoadedStockMap}

\* what a user may type for a ticker
TickerInputs ==
    {<<"0", "0", "5", "9", "3", "0">>,     \* a listed code
     <<"9", "9", "9", "9", "9", "9">>,     \* a six-digit code not in the map
     <<"s", "e">>,                         \* a full name
     <<"e">>,                              \* part of one name
     <<"s">>,                              \* part of two names
     <<"z">>}                              \* part of no name

\* re.match(r'^\d{6}$', stock_input)
IsStockCode(t) == Len(t) = 6 /\ \A i \in 1..6 : t[i] \in Digits

\* stock_input.lower() in name.lower()
Contains(name, t) ==
    \E i \in 0..(Len(name) - Len(t)) : SubSeq(name, i + 1, i + Len(t)) = t

NoStock == <<>>

\* get_stock_code: [code, name, error]
get_stock_code(stock_map, t) ==
    LET byCode  == {e \in stock_map : e.code = t}
        byName  == {e \in stock_map : e.name = t}
        matches == {e \in stock_map : Contains(e.name, t)}
    IN  IF IsStockCode(t)
        THEN IF byCode # {}
             THEN [code |-> t, name |-> (CHOOSE e \in byCode : TRUE).name,
                   error |-> FALSE]
             ELSE [code |-> t, name |-> <<"?">> \o t, error |-> TRUE]
        ELSE IF byName # {}
        THEN [code |-> (CHOOSE e \in byName : TRUE).code, name |-> t,
              error |-> FALSE]
        ELSE IF Cardinality(matches) = 1
        THEN LET e == CHOOSE m \in matches : TRUE
             IN  [code |-> e.code, name |-> e.name, error |-> FALSE]
        ELSE [code |-> NoStock, name |-> NoStock, error |-> TRUE]

\* what get_chat_member answers for the user
MemberStatuses == {"creator", "owner", "administrator", "member",
                   "restricted", "left", "kicked"}

Lookups ==
    {[raises |-> TRUE, status |-> "none", is_owner |-> FALSE]} \cup
    {[raises |-> FALSE, status |-> st, is_owner |-> FALSE] :
        st \in MemberStatuses} \cup
    {[raises |-> FALSE, status |-> "left", is_owner |-> TRUE]}

\* TELEGRAM_ADMIN_IDS: no entry, the user, another user, not a number
AdminSettings == {"empty", "user", "other", "malformed"}

valid_statuses == {"member", "administrator", "creator", "owner"}

\* an operator that answers TRUE when the lookup fails
check_channel_subscription_ErrorAllows(e, lookup) ==
    IF ~e.channel_id THEN TRUE
    ELSE IF e.admin_ids = "malformed" THEN FALSE
    ELSE IF e.admin_ids = "user" THEN TRUE
    ELSE IF lookup.raises THEN TRUE
    ELSE IF lookup.status = "creator" \/ lookup.is_owner THEN TRUE
    ELSE lookup.status \in valid_statuses

\* check_channel_subscription: every exception of the body answers FALSE
check_channel_subscription(e, lookup) ==
    IF ~e.channel_id THEN TRUE
    ELSE IF e.admin_ids = "malformed" THEN FALSE
    ELSE IF e.admin_ids = "user" THEN TRUE
    ELSE IF lookup.raises THEN FALSE
    ELSE IF lookup.status = "creator" \/ lookup.is_owner THEN TRUE
    ELSE lookup.status \in valid_statuses


\* texts a user may type for the price, the period, the tone, the background
PriceInputs == {<<"7", "0">>, <<"7", ",", "0">>, <<"s">>, <<"n", "a", "n">>}
PeriodInputs == {<<"7">>, <<"7", ",", "0">>, <<"s">>}
ToneInputs == {<<"s">>}
NoneWord == <<"-">>
BackgroundInputs == {<<"k">>, NoneWord}

DigitValue(c) ==
    CASE c = "0" -> 0 [] c = "1" -> 1 [] c = "3" -> 3
      [] c = "5" -> 5 [] c = "7" -> 7 [] c = "9" -> 9

RECURSIVE NumberOf(_)
NumberOf(t) ==
    IF t = <<>> THEN 0
    ELSE 10 * NumberOf(SubSeq(t, 1, Len(t) - 1)) + DigitValue(t[Len(t)])

AllDigits(t) == t # <<>> /\ \A i \in 1..Len(t) : t[i] \in Digits

\* text.replace(',', '')
RemoveCommas(t) == SelectSeq(t, LAMBDA c : c # ",")

\* float(text) on the texts of PriceInputs: digits give a number, "nan"
\* gives the float NaN, other texts raise ValueError
ParseFloat(t) ==
    IF AllDigits(t) THEN [ok |-> TRUE, value |-> RInt(NumberOf(t))]
    ELSE IF t = <<"n", "a", "n">> THEN [ok |-> TRUE, value |-> NaN]
    ELSE [ok |-> FALSE, value |-> NaN]

\* int(text) on the texts of PeriodInputs
ParseInt(t) ==
    IF AllDigits(t) THEN [ok |-> TRUE, value |-> NumberOf(t)]
    ELSE [ok |-> FALSE, value |-> 0]

EmptyDict == [k \in {} |-> 0]

\* d[k] = v on a dict
Put(d, k, v) == [x \in DOMAIN d \cup {k} |-> IF x = k THEN v ELSE d[x]]

\* AnalysisRequest(...): a fresh id; details is TRUE when price, period,
\* tone and background were passed
AnalysisRequest(code, name, details) ==
    [id |-> Cardinality(pending_requests) + 1, stock_code |-> code,
     company_name |-> name, details |-> details]

BotInit ==
    /\ pc = "bot"
    /\ \E ch \in BOOLEAN, adm \in AdminSettings, sm \in StockMaps,
          det \in BOOLEAN :
         /\ ~ch => adm = "empty"
         /\ env = [channel_id |-> ch, admin_ids |-> adm, stock_map |-> sm,
                   detailed_report |-> det]
    /\ conversations = [report |-> END, history |-> END, evaluate |-> END]
    /\ user_data = EmptyDict
    /\ pending_requests = {}
    /\ analysis_queue = <<>>
    /\ handled = [handler |-> "none"]
    /\ trigger_time = "none"
    /\ output_file = FALSE
    /\ trade_date = 0
    /\ attempts = <<>>
    /\ snapshot = EmptyFrame
    /\ prev_snapshot = EmptyFrame
    /\ cap_df = EmptyFrame
    /\ triggers = <<>>
    /\ final_results = NoResults
    /\ output_data = NoDoc
    /\ stages = NoStages
    /\ outcome = "running"

\* the first lines of the three start handlers: the subscription check, and
\* the state the handler returns
StartResult(e, lookup, first_state) ==
    IF ~check_channel_subscription(e, lookup) THEN END ELSE first_state

\* looked_up: get_chat_member was called; failed: it raised
StartRecord(name, lookup) ==
    LET looked_up == env.channel_id /\ env.admin_ids \in {"empty", "other"}
    IN  [handler |-> name,
         looked_up |-> looked_up,
         failed |-> looked_up /\ lookup.raises,
         is_subscribed |-> check_channel_subscription(env, lookup)]

\* /start and /help: the two CommandHandlers registered first take them
HandleStart ==
    /\ pc = "bot"
    /\ handled' = [handler |-> "handle_start"]
    /\ UNCHANGED <<batchVars, conversations, user_data, pending_requests,
                   analysis_queue>>

HandleHelp ==
    /\ pc = "bot"
    /\ handled' = [handler |-> "handle_help"]
    /\ UNCHANGED <<batchVars, conversations, user_data, pending_requests,
                   analysis_queue>>

\* /report outside a report conversation
HandleReportStart ==
    /\ pc = "bot"
    /\ conversations.report = END
    /\ \E lookup \in Lookups :
         /\ conversations' = [conversations EXCEPT
               !.report = StartResult(env, lookup, REPORT_CHOOSING_TICKER)]
         /\ handled' = StartRecord("handle_report_start", lookup)
    /\ UNCHANGED <<batchVars, user_data, pending_requests, analysis_queue>>

\* /history outside a history conversation
HandleHistoryStart ==
    /\ pc = "bot"
    /\ conversations.history = END
    /\ \E lookup \in Lookups :
         /\ conversations' = [conversations EXCEPT
               !.history = StartResult(env, lookup, HISTORY_CHOOSING_TICKER)]
         /\ handled' = StartRecord("handle_history_start", lookup)
    /\ UNCHANGED <<batchVars, user_data, pending_requests, analysis_queue>>

\* /evaluate outside an evaluate conversation
HandleEvaluateStart ==
    /\ pc = "bot"
    /\ conversations.evaluate = END
    /\ \E lookup \in Lookups :
         /\ conversations' = [conversations EXCEPT
               !.evaluate = StartResult(env, lookup, CHOOSING_TICKER)]
         /\ handled' = StartRecord("handle_evaluate_start", lookup)
    /\ UNCHANGED <<batchVars, user_data, pending_requests, analysis_queue>>

\* self.pending_requests[request.id] = request; analysis_queue.put(request)
Enqueue(request) ==
    /\ Len(analysis_queue) < MaxQueue
    /\ pending_requests' = pending_requests \cup {request}
    /\ analysis_queue' = Append(analysis_queue, request)

\* a text while the report conversation waits for a ticker
HandleReportTickerInput ==
    /\ pc = "bot"
    /\ conversations.report = REPORT_CHOOSING_TICKER
    /\ \E t \in TickerInputs, is_cached \in BOOLEAN :
         LET stock == get_stock_code(env.stock_map, t) IN
         IF stock.error
         THEN /\ UNCHANGED <<conversations, pending_requests, analysis_queue>>
              /\ handled' = [handler |-> "handle_report_ticker_input",
                             accepted |-> FALSE]
         ELSE /\ conversations' = [conversations EXCEPT !.report = END]
              /\ handled' = [handler |-> "handle_report_ticker_input",
                             accepted |-> TRUE]
              /\ IF is_cached
                 THEN UNCHANGED <<pending_requests, analysis_queue>>
                 ELSE Enqueue(AnalysisRequest(stock.code, stock.name, FALSE))
    /\ UNCHANGED <<batchVars, user_data>>

\* a text while the history conversation waits for a ticker and the report
\* conversation, registered before it, is over
HandleHistoryTickerInput ==
    /\ pc = "bot"
    /\ conversations.report = END
    /\ conversations.history = HISTORY_CHOOSING_TICKER
    /\ \E t \in TickerInputs :
         LET stock == get_stock_code(env.stock_map, t) IN
         /\ conversations' = [conversations EXCEPT
               !.history = IF stock.error THEN HISTORY_CHOOSING_TICKER
                           ELSE END]
         /\ handled' = [handler |-> "handle_history_ticker_input",
                        accepted |-> ~stock.error]
    /\ UNCHANGED <<batchVars, user_data, pending_requests, analysis_queue>>

\* the evaluate conversation takes a text when the two conversations
\* registered before it are over
EvaluateTakesText(state) ==
    /\ pc = "bot"
    /\ conversations.report = END
    /\ conversations.history = END
    /\ conversations.evaluate = state

HandleTickerInput ==
    /\ EvaluateTakesText(CHOOSING_TICKER)
    /\ \E t \in TickerInputs :
         LET stock == get_stock_code(env.stock_map, t) IN
         IF stock.error
         THEN /\ UNCHANGED <<conversations, user_data>>
              /\ handled' = [handler |-> "handle_ticker_input",
                             accepted |-> FALSE]
         ELSE /\ user_data' = Put(Put(user_data, "ticker", stock.code),
                                  "ticker_name", stock.name)
              /\ conversations' = [conversations EXCEPT
                                      !.evaluate = ENTERING_AVGPRICE]
              /\ handled' = [handler |-> "handle_ticker_input",
                             accepted |-> TRUE]
    /\ UNCHANGED <<batchVars, pending_requests, analysis_queue>>

HandleAvgpriceInput ==
    /\ EvaluateTakesText(ENTERING_AVGPRICE)
    /\ \E t \in PriceInputs :
         LET avg_price == ParseFloat(RemoveCommas(t)) IN
         IF avg_price.ok
         THEN /\ user_data' = Put(user_data, "avg_price", avg_price.value)
              /\ conversations' = [conversations EXCEPT
                                      !.evaluate = ENTERING_PERIOD]
              /\ handled' = [handler |-> "handle_avgprice_input",
                             accepted |-> TRUE]
         ELSE /\ UNCHANGED <<conversations, user_data>>
              /\ handled' = [handler |-> "handle_avgprice_input",
                             accepted |-> FALSE]
    /\ UNCHANGED <<batchVars, pending_requests, analysis_queue>>

HandlePeriodInput ==
    /\ EvaluateTakesText(ENTERING_PERIOD)
    /\ \E t \in PeriodInputs :
         LET period == ParseInt(t) IN
         IF period.ok
         THEN /\ user_data' = Put(user_data, "period", period.value)
              /\ conversations' = [conversations EXCEPT
                                      !.evaluate = ENTERING_TONE]
              /\ handled' = [handler |-> "handle_period_input",
                             accepted |-> TRUE]
         ELSE /\ UNCHANGED <<conversations, user_data>>
              /\ handled' = [handler |-> "handle_period_input",
                             accepted |-> FALSE]
    /\ UNCHANGED <<batchVars, pending_requests, analysis_queue>>

HandleToneInput ==
    /\ EvaluateTakesText(ENTERING_TONE)
    /\ \E t \in ToneInputs :
         user_data' = Put(user_data, "tone", t)
    /\ conversations' = [conversations EXCEPT !.evaluate = ENTERING_BACKGROUND]
    /\ handled' = [handler |-> "handle_tone_input", accepted |-> TRUE]
    /\ UNCHANGED <<batchVars, pending_requests, analysis_queue>>

\* the keys handle_background_input reads with user_data[...]
RequiredKeys == {"ticker", "avg_price", "period", "tone"}

\* responded is FALSE when generate_evaluation_response or the sending of
\* its answer raises; a missing key raises KeyError before the try block,
\* and the conversation keeps its state
HandleBackgroundInput ==
    /\ EvaluateTakesText(ENTERING_BACKGROUND)
    /\ \E t \in BackgroundInputs, responded \in BOOLEAN :
         /\ user_data' = Put(user_data, "background",
                             IF t = NoneWord THEN <<>> ELSE t)
         /\ IF ~(RequiredKeys \subseteq DOMAIN user_data)
            THEN /\ handled' = [handler |-> "handle_background_input",
                                accepted |-> TRUE, responded |-> FALSE,
                                raised |-> TRUE]
                 /\ UNCHANGED <<conversations, pending_requests,
                                analysis_queue>>
            ELSE /\ handled' = [handler |-> "handle_background_input",
                                accepted |-> TRUE, responded |-> responded,
                                raised |-> FALSE]
                 /\ conversations' = [conversations EXCEPT !.evaluate = END]
                 /\ IF responded /\ env.detailed_report
                    THEN Enqueue(AnalysisRequest(
                             user_data["ticker"],
                             IF "ticker_name" \in DOMAIN user_data
                             THEN user_data["ticker_name"]
                             ELSE <<"?">> \o user_data["ticker"],
                             TRUE))
                    ELSE UNCHANGED <<pending_requests, analysis_queue>>
    /\ UNCHANGED batchVars

\* a text outside every conversation
HandleDefaultMessage ==
    /\ pc = "bot"
    /\ conversations = [report |-> END, history |-> END, evaluate |-> END]
    /\ handled' = [handler |-> "handle_default_message"]
    /\ UNCHANGED <<batchVars, conversations, user_data, pending_requests,
                   analysis_queue>>

\* /cancel goes to the first ConversationHandler, in the order of their
\* registration, that is inside a conversation
CancelTarget(c) ==
    IF c.report # END THEN "report"
    ELSE IF c.history # END THEN "history"
    ELSE IF c.evaluate # END THEN "evaluate"
    ELSE "none"

HandleCancel ==
    /\ pc = "bot"
    /\ CancelTarget(conversations) # "none"
    /\ user_data' = EmptyDict
    /\ conversations' =
          [c \in DOMAIN conversations |->
              IF c = CancelTarget(conversations) THEN END
              ELSE conversations[c]]
    /\ handled' = [handler |-> "handle_cancel"]
    /\ UNCHANGED <<batchVars, pending_requests, analysis_queue>>

\* conversation_timeout=300: a conversation left alone ends
ConversationTimeout ==
    /\ pc = "bot"
    /\ \E c \in DOMAIN conversations :
         /\ conversations[c] # END
         /\ conversations' = [conversations EXCEPT ![c] = END]
    /\ handled' = [handler |-> "timeout"]
    /\ UNCHANGED <<batchVars, user_data, pending_requests, analysis_queue>>

BotNext ==
    \/ HandleStart
    \/ HandleHelp
    \/ HandleReportStart
    \/ HandleHistoryStart
    \/ HandleEvaluateStart
    \/ HandleReportTickerInput
    \/ HandleHistoryTickerInput
    \/ HandleTickerInput
    \/ HandleAvgpriceInput
    \/ HandlePeriodInput
    \/ HandleToneInput
    \/ HandleBackgroundInput
    \/ HandleDefaultMessage
    \/ HandleCancel
    \/ ConversationTimeout

SpecBot == BotInit /\ [][BotNext]_vars


----------------------------------------------------------------------------
(* Properties of the bot's conversations *)

StartHandlers == {"handle_report_start", "handle_history_start",
                  "handle_evaluate_start"}

\* a step of the start handler of conversation c, with the state it enters
\* when the user is let in
StartStep(c) ==
    CASE c = "report"   -> HandleReportStart
      [] c = "history"  -> HandleHistoryStart
      [] c = "evaluate" -> HandleEvaluateStart

\* the last update was a start command turned away at the gate
TurnedAway ==
    /\ handled.handler \in StartHandlers
    /\ ~handled.is_subscribed

\* C20: every step of the start handler of /report, /history or /evaluate
\* runs the subscription check; when the check is false the conversation is
\* over after the step, no conversation has changed its state, the user
\* data, the pending requests and the analysis queue are what they were; and
\* a membership lookup that raised gives a false check.
AccessGate ==
    [][\A c \in {"report", "history", "evaluate"} :
          StartStep(c) =>
             /\ handled'.handler \in StartHandlers
             /\ handled'.failed => ~handled'.is_subscribed
             /\ ~handled'.is_subscribed =>
                   /\ conversations'[c] = END
                   /\ conversations' = conversations
                   /\ user_data' = user_data
                   /\ pending_requests' = pending_requests
                   /\ analysis_queue' = analysis_queue]_vars

\* C20 witness: /evaluate was turned away because the membership lookup
\* raised, while user data and a queued request of earlier conversations
\* of the same user are still there
AccessGateWitness ==
    /\ pc = "bot"
    /\ handled.handler = "handle_evaluate_start"
    /\ handled.failed
    /\ ~handled.is_subscribed
    /\ conversations.evaluate = END
    /\ "ticker" \in DOMAIN user_data
    /\ analysis_queue # <<>>

----------------------------------------------------------------------------
(* Properties of select_final_tickers: the pool and the two premium passes *)

\* C21 (as claimed): the pool holds one entry for every occurrence of a
\* ticker in a category, with that category's name and score, so a ticker
\* in the results of two categories has two entries.
PoolEntryPerOccurrence ==
    AllocDone =>
        LET pool == PoolOf(triggers) IN
        /\ Len(pool) = Cardinality(TriggerRows)
        /\ \A p \in TriggerRows :
              \E i \in 1..Len(pool) :
                 /\ pool[i].name = p[1]
                 /\ pool[i].ticker = p[2].ticker
                 /\ pool[i].score = p[2].score

NonEmptyCats == {i \in 1..Len(triggers) : ~IsEmpty(triggers[i].df)}

\* the categories whose top ticker is not the top ticker of an earlier one
FreshTopCats == {i \in NonEmptyCats : \A j \in NonEmptyCats : j < i => TopOf(j) # TopOf(i)}

FirstPassResult == FirstPass(triggers, [tickers |-> {}, result |-> <<>>]).result

\* C22: the first pass leaves one entry, holding the top row alone, for each
\* non-empty category whose top ticker no earlier category chose, in the
\* order of declaration, and no entry for the other categories; premium keeps
\* these entries in front with the top row first; and the top ticker of every
\* non-empty category is in premium.
FirstPassTakesCategoryTops ==
    AllocDone =>
        LET first == FirstPassResult
            P == final_results.premium
        IN
        /\ Len(first) = Cardinality(FreshTopCats)
        /\ \A k \in 1..Len(first) :
              \E i \in FreshTopCats :
                 /\ Cardinality({j \in FreshTopCats : j <= i}) = k
                 /\ first[k] = [name |-> triggers[i].name,
                                rows |-> <<triggers[i].df.rows[1]>>]
        /\ Len(P) >= Len(first)
        /\ \A k \in 1..Len(first) :
              /\ P[k].name = first[k].name
              /\ P[k].rows[1] = first[k].rows[1]
        /\ \A i \in NonEmptyCats : TopOf(i) \in PremiumTickers

\* C22 witness: three non-empty categories, and a ticker that is the top of
\* no category outscores the top of a category in the pool yet is left out
\* of premium.
FirstPassWitness ==
    /\ AllocDone
    /\ Cardinality(NonEmptyCats) = 3
    /\ \E i \in NonEmptyCats :
       \E t \in TriggerTickers \ PremiumTickers :
          /\ t \notin {TopOf(j) : j \in NonEmptyCats}
          /\ i \in FreshTopCats
          /\ RGt(PoolScore(t), triggers[i].df.rows[1].score)

----------------------------------------------------------------------------
(* SpecCut: the five triggers with a qualifier applied to universes of one *)
(* ticker more than the trigger's top_n, all of which pass the filters.    *)
(* The last ticker is the lowest in every scored column that does not      *)
(* depend on the qualifier, by a margin that no qualifier outweighs.       *)

CutNames == TriggerNames \ {"daily_rise"}

\* the default top_n of each trigger
TopNOf(name) ==
    CASE name = "volume_surge"      -> TopNVolumeSurge
      [] name = "gap_up"            -> TopNGapUp
      [] name = "value_to_cap"      -> TopNValueToCap
      [] name = "daily_rise"        -> TopNDailyRise
      [] name = "closing_strength"  -> TopNClosingStrength
      [] name = "volume_surge_flat" -> TopNVolumeSurgeFlat

\* ticker i of n, last when i = n, satisfying the qualifier when q
CutProfile(name, i, n, q) ==
    LET last == i = n IN
    CASE name = "volume_surge" ->
            Profile(100, IF q THEN 103 ELSE 99, 103,
                    IF last THEN 13 ELSE 20 + i, 5, 10, TRUE, 100)
      [] name = "volume_surge_flat" ->
            Profile(100, IF q THEN 103 ELSE 106, 106,
                    IF last THEN 15 ELSE 20 + i, 5, 10, TRUE, 100)
      [] name = "gap_up" ->
            LET open == IF last THEN 200 ELSE 100 * (100 + i)
                step == open \div 100
            IN  Profile(open, IF q THEN open + step ELSE open - step,
                        open + step, 13, 5, 10, TRUE, 100)
      [] name = "value_to_cap" ->
            Profile(100, IF q THEN 103 ELSE 99, 103, 13,
                    IF last THEN 5 ELSE 100 + i, 10, TRUE, 100)
      [] name = "closing_strength" ->
            [Profile(100, IF q THEN (IF last THEN 110 ELSE 200) ELSE 100, 200,
                     IF last THEN 11 ELSE 20 + i, 5, 10, TRUE, 100)
               EXCEPT !.low = IF last THEN 100 ELSE 0]

\* which of the first n tickers satisfy the qualifier: none, one, two, or all
CutPatterns(n) == {{i, j} \ {0} : i, j \in 0..n} \cup {1..n}

CutInit ==
    /\ pc = "trig_call"
    /\ \E name \in CutNames :
       \E Q \in CutPatterns(TopNOf(name)) :
       \E lastq \in BOOLEAN :
       \E down \in BOOLEAN :
         LET n  == TopNOf(name) + 1
             ps == [i \in 1..n |->
                      CutProfile(name, i, n, IF i = n THEN lastq ELSE i \in Q)]
         IN
         /\ env = [focus |-> name, name_fail |-> IF down THEN 1..n ELSE {}]
         /\ snapshot = SnapshotOf(ps)
         /\ prev_snapshot = PrevSnapshotOf(ps)
         /\ cap_df = CapFrameOf(ps)
    /\ trigger_time = "none"
    /\ output_file = FALSE
    /\ trade_date = 0
    /\ attempts = <<>>
    /\ triggers = <<>>
    /\ final_results = NoResults
    /\ output_data = NoDoc
    /\ stages = NoStages
    /\ outcome = "running"
    /\ NoBot

CutNext ==
    \/ CallVolumeSurge
    \/ CallGapUp
    \/ CallValueToCap
    \/ CallClosingStrength
    \/ CallVolumeSurgeFlat

SpecCut == CutInit /\ [][CutNext]_vars

----------------------------------------------------------------------------
(* Properties of the cut to the top-N candidates *)

\* the qualifier of a trigger: lines 200, 250, 370, 478, 526
Qualifies(name, r) == IF name = "volume_surge_flat" THEN Flat(r) ELSE Rising(r)

\* the scored candidates with a strictly higher score than r
Outranking(r) == {q \in stages.scored : RGt(q.score, r.score)}

\* the candidates that fewer than top_n candidates outrank
TopRanked ==
    {r \in stages.scored : Cardinality(Outranking(r)) < TopNOf(env.focus)}

QualifiedTop == {r \in TopRanked : Qualifies(env.focus, r)}

\* C23: in Morning Volume Surge, Gap-Up Momentum, Value-to-Cap, Closing
\* Strength and Volume-Surge Flat, every returned row is one of the top-N
\* scored candidates (N = 10, 15, 10, 15, 20) and satisfies the qualifier,
\* and the rows come in descending order of score: a candidate ranked below
\* N is not returned, whether or not it qualifies.  When no display-name
\* lookup fails, the rows returned are the min(3, number of qualifying top-N
\* candidates) best of the qualifying top-N candidates.
CutBeforeQualifier ==
    (TrigReturned /\ env.focus \in CutNames) =>
        /\ \A i \in 1..Len(ResultRowsOf) : ResultRowsOf[i] \in QualifiedTop
        /\ \A i, j \in 1..Len(ResultRowsOf) :
              i < j => RGt(ResultRowsOf[i].score, ResultRowsOf[j].score)
        /\ env.name_fail = {} =>
              /\ Len(ResultRowsOf) = Min(ResultRows, Cardinality(QualifiedTop))
              /\ \A q \in QualifiedTop :
                    q \notin SeqToSet(ResultRowsOf) =>
                       \A i \in 1..Len(ResultRowsOf) :
                          RGt(ResultRowsOf[i].score, q.score)

\* C23 witness: more than N candidates are scored, fewer than 3 of the top
\* N satisfy the qualifier, a candidate ranked below N satisfies it, and the
\* trigger returns a non-empty result without that candidate.
CutBeforeQualifierWitness ==
    /\ TrigReturned
    /\ env.focus \in CutNames
    /\ Cardinality(stages.scored) > TopNOf(env.focus)
    /\ Cardinality(QualifiedTop) < ResultRows
    /\ ResultRowsOf # <<>>
    /\ \E r \in stages.scored \ TopRanked :
          /\ Qualifies(env.focus, r)
          /\ r \notin SeqToSet(ResultRowsOf)

----------------------------------------------------------------------------
(* Properties of the triggers: a prior volume of 0, soundness, frames *)

\* C24 (as claimed): Closing Strength scores exactly the tickers that pass
\* the absolute filter and whose volume today is strictly greater than the
\* prior day's, whatever the prior day's volume, 0 included.
ClosingStrengthAdmitsVolumeUp ==
    (TrigDone /\ env.focus = "closing_strength") =>
        PreTickers =
           {t \in KeptTickers :
               RowOf(snapshot, t).volume > RowOf(prev_snapshot, t).volume}

GrowthNames == {"volume_surge", "volume_surge_flat"}

\* the kept tickers whose prior-day volume is 0
ZeroPriorKept == {t \in KeptTickers : RowOf(prev_snapshot, t).volume = 0}

\* the scored candidates that satisfy the trigger's qualifier
QualifiedScored == {r \in stages.scored : Qualifies(env.focus, r)}

\* C25: in Morning Volume Surge and Afternoon Volume-Surge Flat a ticker
\* that passes the absolute filter with a prior-day volume of 0 has an
\* undefined (NaN) volume growth, not 0; the pre-score filter removes it, so
\* every scored candidate has a defined growth and the growth column is
\* normalized over the other candidates alone (0 at their minimum, 1 at
\* their maximum); and unless a display-name lookup fails the call returns,
\* with the min(3, number of qualifying candidates) qualifying candidates.
ZeroPriorVolumeExcluded ==
    (TrigDone /\ env.focus \in GrowthNames) =>
        /\ \A t \in ZeroPriorKept :
              /\ IsNaN(Metrics(RowOf(snapshot, t), RowOf(prev_snapshot, t), 0).vol_growth)
              /\ t \notin PreTickers
        /\ \A r \in stages.scored :
              /\ ~IsNaN(r.vol_growth)
              /\ ~IsNaN(r.score)
              /\ Varies(1) =>
                    /\ (\A q \in stages.scored : RGe(q.vol_growth, r.vol_growth))
                          => r.norms[1] = RInt(0)
                    /\ (\A q \in stages.scored : RGe(r.vol_growth, q.vol_growth))
                          => r.norms[1] = RInt(1)
        /\ env.name_fail = {} =>
              /\ outcome = "returned"
              /\ SeqToSet(ResultRowsOf) \subseteq QualifiedScored
              /\ Len(ResultRowsOf) = Min(ResultRows, Cardinality(QualifiedScored))

\* C25 witness: a ticker with a prior-day volume of 0 passed the absolute
\* filter and was removed by the pre-score filter, two other tickers with
\* different growths were scored, and the trigger returned a non-empty
\* result.
ZeroPriorVolumeWitness ==
    /\ TrigReturned
    /\ env.focus \in GrowthNames
    /\ ZeroPriorKept # {}
    /\ Varies(1)
    /\ ResultRowsOf # <<>>
    /\ \A t \in ZeroPriorKept : \A i \in 1..Len(ResultRowsOf) : ResultRowsOf[i].ticker # t

\* the outcomes of the trigger called name on the given frames
RunTrigger(name, snap, prev, cap, fail) ==
    CASE name = "volume_surge"      -> trigger_morning_volume_surge(snap, prev, fail)
      [] name = "gap_up"            -> trigger_morning_gap_up_momentum(snap, prev, fail)
      [] name = "value_to_cap"      -> trigger_morning_value_to_cap_ratio(snap, prev, cap, fail)
      [] name = "daily_rise"        -> trigger_afternoon_daily_rise_top(snap, prev, fail)
      [] name = "closing_strength"  -> trigger_afternoon_closing_strength(snap, prev, fail)
      [] name = "volume_surge_flat" -> trigger_afternoon_volume_surge_flat(snap, prev, fail)

\* every result run_batch holds is a result of its trigger on the shared
\* frames as they are now
ResultsFromSharedFrames ==
    \A k \in 1..Len(triggers) :
        Returned(triggers[k].df) \in
            RunTrigger(triggers[k].name, snapshot, prev_snapshot, cap_df, env.name_fail)

----------------------------------------------------------------------------
(* Properties of select_final_tickers: ties in the pool, the tiers' rows *)

SortedPool == SortPool(PoolOf(triggers))

\* the place of ticker t's entry in the pool, in insertion order
PoolIndex(t) ==
    CHOOSE i \in 1..Len(PoolOf(triggers)) : PoolOf(triggers)[i].ticker = t

\* the first entry, in insertion order, among those of the highest score
FirstBest ==
    LET pool == PoolOf(triggers)
        best == {i \in 1..Len(pool) :
                   \A j \in 1..Len(pool) : RGe(pool[i].score, pool[j].score)}
    IN  pool[CHOOSE i \in best : \A j \in best : i <= j]

\* C27: the sorted pool holds the pool's entries in descending order of
\* score, entries of equal score in the order they were inserted (category
\* by category in declaration order, each category's rows from the top);
\* free is the first inserted of the entries with the highest score; and of
\* two entries of equal score the second pass never takes the later
\* inserted while leaving the earlier out.
PoolSortStable ==
    (AllocDone /\ SomeResult) =>
        /\ Len(SortedPool) = Len(PoolOf(triggers))
        /\ \A i, j \in 1..Len(SortedPool) :
              i < j =>
                 /\ RGe(SortedPool[i].score, SortedPool[j].score)
                 /\ Same(SortedPool[i].score, SortedPool[j].score) =>
                       PoolIndex(SortedPool[i].ticker) < PoolIndex(SortedPool[j].ticker)
        /\ final_results.free[1].name = FirstBest.name
        /\ final_results.free[1].rows[1].ticker = FirstBest.ticker
        /\ \A t \in PremiumTickers \ FirstPassTickers :
           \A u \in TriggerTickers \ PremiumTickers :
              Same(PoolScore(t), PoolScore(u)) => PoolIndex(t) < PoolIndex(u)

\* C27 witness: two categories both hold the highest score, free is the row
\* of the earlier one; and the second pass took one of two entries of equal
\* score and left the other out.
PoolSortStableWitness ==
    /\ AllocDone
    /\ \E i, j \in 1..Len(triggers) :
          /\ i < j
          /\ ~IsEmpty(triggers[i].df) /\ ~IsEmpty(triggers[j].df)
          /\ triggers[i].df.rows[1].ticker # triggers[j].df.rows[1].ticker
          /\ Same(triggers[i].df.rows[1].score, FirstBest.score)
          /\ Same(triggers[j].df.rows[1].score, FirstBest.score)
          /\ final_results.free[1].name = triggers[i].name
    /\ \E t \in PremiumTickers \ FirstPassTickers :
       \E u \in TriggerTickers \ PremiumTickers :
          Same(PoolScore(t), PoolScore(u))

----------------------------------------------------------------------------
(* Soundness of the trigger results, stated on the frames handed in *)

\* the rows of today's snapshot a trigger works on: the tickers of both
\* snapshots, and of the market-cap table for Value-to-Cap
WorkingRows ==
    SelectSeq(snapshot.rows,
        LAMBDA r : /\ r.ticker \in IndexSet(prev_snapshot)
                   /\ env.focus = "value_to_cap" => r.ticker \in IndexSet(cap_df))

MinValueOf(name) == IF name = "daily_rise" THEN MinValueDailyRise ELSE MinValueDefault

\* the pre-score threshold of a trigger on today's row, the prior day's row
\* and the market cap
PassesThreshold(name, today, prior, cap) ==
    CASE name = "volume_surge" ->
            prior.volume > 0 /\ 10 * today.volume >= 13 * prior.volume
      [] name = "gap_up" -> 100 * today.open >= 101 * prior.close
      [] name = "value_to_cap" -> cap >= MinMarketCap
      [] name = "daily_rise" -> 100 * today.close >= 103 * today.open
      [] name = "closing_strength" -> today.volume > prior.volume
      [] name = "volume_surge_flat" ->
            prior.volume > 0 /\ 2 * today.volume >= 3 * prior.volume

\* the qualifier of a trigger on today's row
PassesQualifier(name, today) ==
    CASE name = "daily_rise" -> TRUE
      [] name = "volume_surge_flat" ->
            100 * Abs(today.close - today.open) <= 5 * today.open
      [] OTHER -> today.close > today.open

\* C28: every ticker of a trigger's result is listed in today's and the
\* prior day's snapshot (and in the market-cap table for Value-to-Cap), has
\* a trade value of at least the trigger's floor and a volume of at least
\* 20 percent of the mean volume of the working table, meets the trigger's
\* pre-score threshold, and satisfies its qualifier.
TriggerResultSound ==
    TrigReturned =>
        \A i \in 1..Len(ResultRowsOf) :
            LET t == ResultRowsOf[i].ticker IN
            /\ t \in IndexSet(snapshot)
            /\ t \in IndexSet(prev_snapshot)
            /\ env.focus = "value_to_cap" => t \in IndexSet(cap_df)
            /\ LET today == RowOf(snapshot, t)
                   prior == RowOf(prev_snapshot, t)
               IN  /\ today.value >= MinValueOf(env.focus)
                   /\ 5 * Len(WorkingRows) * today.volume >= SumVolume(WorkingRows)
                   /\ PassesThreshold(env.focus, today, prior,
                         IF env.focus = "value_to_cap" THEN CapOf(cap_df, t) ELSE 0)
                   /\ PassesQualifier(env.focus, today)

\* C28 witness: a trigger returned some tickers of its universe and left
\* out one that fails the absolute filter, one that fails the pre-score
\* threshold or the qualifier, and one that the prior day's snapshot lacks.
TriggerResultSoundWitness ==
    /\ TrigReturned
    /\ ResultRowsOf # <<>>
    /\ \E t \in IndexSet(snapshot) : t \notin IndexSet(prev_snapshot)
    /\ \E t \in KeptTickers \ {ResultRowsOf[i].ticker : i \in 1..Len(ResultRowsOf)} :
          \/ ~PassesThreshold(env.focus, RowOf(snapshot, t), RowOf(prev_snapshot, t),
                 IF env.focus = "value_to_cap" THEN CapOf(cap_df, t) ELSE 0)
          \/ ~PassesQualifier(env.focus, RowOf(snapshot, t))
    /\ \E i \in 1..Len(stages.input) : stages.input[i].ticker \notin KeptTickers

\* C29 (as claimed): the ticker selected for free is one of the tickers in
\* premium, and every row listed under a category in free or premium is a
\* row of that category's trigger result.
FreeInPremiumRowsFromCategory ==
    AllocDone =>
        /\ TierTickers(final_results.free) \subseteq PremiumTickers
        /\ \A tier \in {final_results.free, final_results.premium} :
           \A c \in 1..Len(tier) :
           \A k \in 1..Len(tier[c].rows) :
              <<tier[c].name, tier[c].rows[k]>> \in TriggerRows

----------------------------------------------------------------------------
(* Properties of the /evaluate conversation *)

EvaluateOrder ==
    <<CHOOSING_TICKER, ENTERING_AVGPRICE, ENTERING_PERIOD, ENTERING_TONE,
      ENTERING_BACKGROUND, END>>

\* a step moves the evaluate conversation one place forward in EvaluateOrder,
\* starts it, or ends it
EvaluateAdvancesInOrder ==
    conversations'.evaluate # conversations.evaluate =>
        \/ \E i \in 1..(Len(EvaluateOrder) - 1) :
              /\ conversations.evaluate = EvaluateOrder[i]
              /\ conversations'.evaluate = EvaluateOrder[i + 1]
        \/ conversations.evaluate = END /\ conversations'.evaluate = CHOOSING_TICKER
        \/ conversations'.evaluate = END

EvaluateInputHandlers ==
    {"handle_ticker_input", "handle_avgprice_input", "handle_period_input"}

\* an input that is turned down changes neither the state nor the stored
\* data, and a price that is stored is a number
RejectedInputStoresNothing ==
    /\ (handled'.handler \in EvaluateInputHandlers /\ ~handled'.accepted) =>
          /\ conversations' = conversations
          /\ user_data' = user_data
    /\ (handled'.handler = "handle_avgprice_input" /\ handled'.accepted) =>
          ~IsNaN(user_data'["avg_price"])

\* the response is generated with ticker, price, period and tone stored
ResponseAfterAllAccepted ==
    (handled'.handler = "handle_background_input" /\ handled'.responded) =>
        /\ conversations.evaluate = ENTERING_BACKGROUND
        /\ RequiredKeys \subseteq DOMAIN user_data

\* /cancel clears the stored data and ends the evaluate conversation
CancelEndsEvaluate ==
    handled'.handler = "handle_cancel" =>
        /\ user_data' = EmptyDict
        /\ conversations'.evaluate = END

\* C30 (as claimed): the /evaluate conversation advances only in the order
\* CHOOSING_TICKER, ENTERING_AVGPRICE, ENTERING_PERIOD, ENTERING_TONE,
\* ENTERING_BACKGROUND, END; an unresolvable or ambiguous ticker, a
\* non-numeric price or a non-integer period leaves the state and the stored
\* data as they were; the evaluation response is generated only after
\* ticker, price, period and tone were accepted; and /cancel from any state
\* clears the stored data and ends the conversation.
EvaluateConversationOrdered ==
    [][/\ EvaluateAdvancesInOrder
       /\ RejectedInputStoresNothing
       /\ ResponseAfterAllAccepted
       /\ CancelEndsEvaluate]_vars

====
